---- MODULE Spec2Model ----
(***************************************************************************)
(* Model of FakeVehicleHardware (automotive/vehicle/aidl/impl/fake_impl):  *)
(* the property store it writes to, the single-request getValue/setValue   *)
(* paths with their special-cased properties, and the PendingRequestHandler*)
(* worker that turns queued get/set requests into callback invocations.    *)
(***************************************************************************)
EXTENDS Integers, Sequences, FiniteSets, TLC

VARIABLES
    store,              \* mServerSidePropStore: (prop, areaId) -> stored VehiclePropValue
    now,                \* elapsedRealtimeNano()
    written,            \* history: keys for which the store ever accepted a write
    kind,               \* which instantiation of PendingRequestHandler: "get" or "set"
    mQueue,             \* ConcurrentQueue::mQueue of mRequests
    mIsActive,          \* ConcurrentQueue::mIsActive of mRequests
    workerPc,           \* position of mThread: "wait", "flush", "handle", "deliver", "exited"
    batch,              \* items returned by mRequests.flush() not yet handled
    callbackToResults,  \* local of handleRequestsOnce: callback -> results
    cycle,              \* number of flushes done so far
    drained,            \* history: <<requestId, cycle>> for every item a flush returned
    handled,            \* history: <<requestId, cycle>> for every handler call made
    invocations,        \* history: callback invocations, [cb, results, cycle]
    prodPc,             \* per producer thread: "idle", "adding", "done"
    prodCb,             \* per producer thread: callback handle of its getValues/setValues call
    prodReqs,           \* per producer thread: the requests of its call
    prodNext,           \* per producer thread: index of the next request to add
    accepted,           \* history: requestIds passed to addRequest before deactivate()
    rejected,           \* history: requestIds passed to addRequest after deactivate()
    stopPc,             \* thread calling stop(): "none", "join", "returned"
    stopCalls,          \* number of stop() calls started
    stopAt,             \* history: where the worker was when stop() first deactivated
    joined,             \* mThread has been joined (no longer joinable)
    lastSet,            \* caller thread: its last setValue call and result
    lastGet,            \* caller thread: its last getValue call and result
    mOnPropertyChangeCallback,  \* the registered listener: "null" or a listener handle
    delivered,          \* history: batches the listener received in the last operation
    mLock,              \* FakeVehicleHardware::mLock: "none" or the thread holding it
    mRecurrentActions,  \* (prop, areaId) -> action handle
    timerCallbacks,     \* RecurrentTimer: the action handles registered with it
    nextAction,         \* identity of the next std::make_shared<RecurrentTimer::Callback>
    usrPc,              \* per thread calling updateSampleRate: its position
    usrArgs,            \* per thread calling updateSampleRate: [propId, areaId, sampleRate]
    timerPc,            \* timer thread: "wait", "get", "remove", "write", "notify",
                        \* and inside onValueChangeCallback "listener", "unlock",
                        \* "blocked"
    running,            \* timer thread: the action it is invoking, as a sequence of 0 or 1
    refreshValue,       \* timer thread: local `result` of the refresh closure
    lastRate,           \* history: key -> rate of the last updateSampleRate that returned
    lastFiring,         \* history: what the last invocation of a refresh action did
    registrations,      \* history: the listener handles registered, and the last one
    enqueued,           \* history: requestIds in the order mRequests accepted them
    mSavedProps,        \* (prop, areaId) -> the value saved by dump --save-prop
    lastDump,           \* caller thread: its last save or restore and what it did
    keyPress,           \* thread running --genfakedata --keypress: position, arguments
    dtorPc,             \* thread running ~FakeVehicleHardware: its position
    mGeneratorHub,      \* "running", or "null" after mGeneratorHub.reset()
    pending             \* mPendingGetValueRequests and mPendingSetValueRequests, in brief

storeVars == <<store, now, written>>
workerVars == <<workerPc, batch, callbackToResults, cycle, drained, handled, invocations>>
prodVars == <<prodPc, prodCb, prodReqs, prodNext>>
stopVars == <<stopPc, stopCalls, stopAt, joined>>
callerVars == <<lastSet, lastGet>>
rateVars == <<mLock, mRecurrentActions, timerCallbacks, nextAction, usrPc, usrArgs,
              lastRate>>
timerVars == <<timerPc, running, refreshValue>>
dumpVars == <<mSavedProps, lastDump, keyPress>>
dtorVars == <<dtorPc, mGeneratorHub, pending>>
vars == <<store, now, written, kind, mQueue, mIsActive, workerPc, batch,
          callbackToResults, cycle, drained, handled, invocations, prodPc, prodCb,
          prodReqs, prodNext, accepted, rejected, stopPc, stopCalls, stopAt, joined,
          lastSet, lastGet, mOnPropertyChangeCallback, delivered, mLock,
          mRecurrentActions, timerCallbacks, nextAction, usrPc, usrArgs, timerPc,
          running, refreshValue, lastRate, lastFiring, registrations, enqueued,
          mSavedProps, lastDump, keyPress, dtorPc, mGeneratorHub, pending>>

(***************************************************************************)
(* Bounds of the model.                                                    *)
(***************************************************************************)
MaxReqs == 2        \* requests carried by one getValues/setValues call
MaxTime == 2        \* last value of the clock
MaxStops == 2       \* calls of stop()
MaxActions == 3     \* refresh actions created by updateSampleRate

(***************************************************************************)
(* Property ids, areas and configuration.                                  *)
(***************************************************************************)
PERF_VEHICLE_SPEED == "PERF_VEHICLE_SPEED"
INFO_MAKE == "INFO_MAKE"
HVAC_POWER_ON == "HVAC_POWER_ON"
HVAC_TEMPERATURE_SET == "HVAC_TEMPERATURE_SET"
AP_POWER_STATE_REPORT == "AP_POWER_STATE_REPORT"
AP_POWER_STATE_REQ == "AP_POWER_STATE_REQ"
VEHICLE_MAP_SERVICE == "VEHICLE_MAP_SERVICE"
ECHO_REVERSE_BYTES == "ECHO_REVERSE_BYTES"
USER_HAL_PROP == "INITIAL_USER_INFO"
UNREGISTERED_PROP == "UNREGISTERED_PROP"

HVAC_ALL == 1

\* VehicleApPowerStateReport
WAIT_FOR_VHAL == 1
DEEP_SLEEP_ENTRY == 2
DEEP_SLEEP_EXIT == 3
SHUTDOWN_START == 5
SHUTDOWN_CANCELLED == 8
HIBERNATION_ENTRY == 9
HIBERNATION_EXIT == 10
\* VehicleApPowerStateReq
REQ_ON == 0
REQ_FINISHED == 3

\* defaultconfig::getDefaultConfigs(): the registered properties with their areas
ConfigAreas ==
    [p \in {PERF_VEHICLE_SPEED, INFO_MAKE, HVAC_POWER_ON, HVAC_TEMPERATURE_SET,
            AP_POWER_STATE_REPORT, AP_POWER_STATE_REQ, VEHICLE_MAP_SERVICE,
            ECHO_REVERSE_BYTES, USER_HAL_PROP} |->
        IF p \in {HVAC_POWER_ON, HVAC_TEMPERATURE_SET} THEN {HVAC_ALL} ELSE {0}]

RegisteredProps == DOMAIN ConfigAreas

HVAC_POWER_PROPERTIES == {HVAC_TEMPERATURE_SET}

\* FakeUserHal::isSupported
UserHalSupported(propId) == propId = USER_HAL_PROP

StatusOK == "OK"
INVALID_ARG == "INVALID_ARG"
NOT_AVAILABLE == "NOT_AVAILABLE"
INTERNAL_ERROR == "INTERNAL_ERROR"

\* A VehiclePropValue
PropValue(p, a, t, s, pl) ==
    [prop |-> p, areaId |-> a, timestamp |-> t, status |-> s, value |-> pl]

\* std::reverse of a byte vector, as getEchoReverseBytes computes it
ReverseBytes(bytes) == [i \in 1..Len(bytes) |-> bytes[Len(bytes) + 1 - i]]

(***************************************************************************)
(* VehiclePropertyStore.  A result carries an optional value as a sequence *)
(* of length 0 or 1.                                                       *)
(***************************************************************************)
KeyOf(v) == <<v.prop, v.areaId>>

SameIgnoringTimestamp(a, b) ==
    /\ a.prop = b.prop
    /\ a.areaId = b.areaId
    /\ a.status = b.status
    /\ a.value = b.value

readValue(st, propId, areaId) ==
    IF <<propId, areaId>> \in DOMAIN st
    THEN [code |-> StatusOK, value |-> <<st[<<propId, areaId>>]>>]
    ELSE [code |-> NOT_AVAILABLE, value |-> <<>>]

writeValue(st, v, updateStatus) ==
    IF v.prop \notin RegisteredProps \/ v.areaId \notin ConfigAreas[v.prop]
    THEN [code |-> INVALID_ARG, store |-> st, notified |-> <<>>]
    ELSE IF /\ KeyOf(v) \in DOMAIN st
            /\ SameIgnoringTimestamp(st[KeyOf(v)], v)
            /\ ~updateStatus
    THEN [code |-> StatusOK, store |-> st, notified |-> <<>>]
    ELSE [code |-> StatusOK,
          store |-> [k \in DOMAIN st \cup {KeyOf(v)} |->
                        IF k = KeyOf(v) THEN v ELSE st[k]],
          notified |-> <<v>>]

removeValue(st, v) == [k \in DOMAIN st \ {KeyOf(v)} |-> st[k]]

\* The stored payload of a key, as a sequence of length 0 or 1
PayloadAt(st, key) == IF key \in DOMAIN st THEN <<st[key].value>> ELSE <<>>

removeValuesForProperty(st, propId) ==
    [k \in {kk \in DOMAIN st : kk[1] # propId} |-> st[k]]

(***************************************************************************)
(* FakeVehicleHardware: the single-request paths.  `t` is the value of     *)
(* elapsedRealtimeNano() during the call; `hal` is what the FakeUserHal    *)
(* delegate answers: [ok, code, value] with value of length 0 (null) or 1. *)
(***************************************************************************)
createApPowerStateReq(state, t) ==
    PropValue(AP_POWER_STATE_REQ, 0, t, "AVAILABLE", <<state, 0>>)

\* Mutant of setApPowerStateReport: the ON request is written over the stored one,
\* without removing it first and without updateStatus
setApPowerStateReportKeepsReq(st, value, t) ==
    LET w1 == writeValue(st, [value EXCEPT !.timestamp = t], FALSE)
        state == value.value[1]
    IN  IF w1.code # StatusOK
        THEN [code |-> w1.code, store |-> w1.store, notified |-> w1.notified]
        ELSE IF state \in {DEEP_SLEEP_EXIT, HIBERNATION_EXIT, SHUTDOWN_CANCELLED,
                           WAIT_FOR_VHAL}
        THEN LET st2 == w1.store
                 w2 == writeValue(st2, createApPowerStateReq(REQ_ON, t), FALSE)
             IN  [code |-> w2.code, store |-> w2.store,
                  notified |-> w1.notified \o w2.notified]
        ELSE IF state \in {DEEP_SLEEP_ENTRY, HIBERNATION_ENTRY, SHUTDOWN_START}
        THEN LET w2 == writeValue(w1.store, createApPowerStateReq(REQ_FINISHED, t), TRUE)
             IN  [code |-> w2.code, store |-> w2.store,
                  notified |-> w1.notified \o w2.notified]
        ELSE [code |-> StatusOK, store |-> w1.store, notified |-> w1.notified]

\* Mutant of setApPowerStateReport: the FINISHED request is written without
\* updateStatus
setApPowerStateReportNoUpdateStatus(st, value, t) ==
    LET w1 == writeValue(st, [value EXCEPT !.timestamp = t], FALSE)
        state == value.value[1]
    IN  IF w1.code # StatusOK
        THEN [code |-> w1.code, store |-> w1.store, notified |-> w1.notified]
        ELSE IF state \in {DEEP_SLEEP_EXIT, HIBERNATION_EXIT, SHUTDOWN_CANCELLED,
                           WAIT_FOR_VHAL}
        THEN LET st2 == removeValuesForProperty(w1.store, AP_POWER_STATE_REQ)
                 w2 == writeValue(st2, createApPowerStateReq(REQ_ON, t), TRUE)
             IN  [code |-> w2.code, store |-> w2.store,
                  notified |-> w1.notified \o w2.notified]
        ELSE IF state \in {DEEP_SLEEP_ENTRY, HIBERNATION_ENTRY, SHUTDOWN_START}
        THEN LET w2 == writeValue(w1.store, createApPowerStateReq(REQ_FINISHED, t), FALSE)
             IN  [code |-> w2.code, store |-> w2.store,
                  notified |-> w1.notified \o w2.notified]
        ELSE [code |-> StatusOK, store |-> w1.store, notified |-> w1.notified]

\* Mutant of setApPowerStateReport: the default label sits on the ON case, so an
\* unknown report is answered like WAIT_FOR_VHAL
setApPowerStateReportDefaultOn(st, value, t) ==
    LET w1 == writeValue(st, [value EXCEPT !.timestamp = t], FALSE)
        state == value.value[1]
    IN  IF w1.code # StatusOK
        THEN [code |-> w1.code, store |-> w1.store, notified |-> w1.notified]
        ELSE IF state \notin {DEEP_SLEEP_ENTRY, HIBERNATION_ENTRY, SHUTDOWN_START}
        THEN LET st2 == removeValuesForProperty(w1.store, AP_POWER_STATE_REQ)
                 w2 == writeValue(st2, createApPowerStateReq(REQ_ON, t), TRUE)
             IN  [code |-> w2.code, store |-> w2.store,
                  notified |-> w1.notified \o w2.notified]
        ELSE IF state \in {DEEP_SLEEP_ENTRY, HIBERNATION_ENTRY, SHUTDOWN_START}
        THEN LET w2 == writeValue(w1.store, createApPowerStateReq(REQ_FINISHED, t), TRUE)
             IN  [code |-> w2.code, store |-> w2.store,
                  notified |-> w1.notified \o w2.notified]
        ELSE [code |-> StatusOK, store |-> w1.store, notified |-> w1.notified]

\* FakeVehicleHardware::setApPowerStateReport: [code, store, notified]
setApPowerStateReport(st, value, t) ==
    LET w1 == writeValue(st, [value EXCEPT !.timestamp = t], FALSE)
        state == value.value[1]
    IN  IF w1.code # StatusOK
        THEN [code |-> w1.code, store |-> w1.store, notified |-> w1.notified]
        ELSE IF state \in {DEEP_SLEEP_EXIT, HIBERNATION_EXIT, SHUTDOWN_CANCELLED,
                           WAIT_FOR_VHAL}
        THEN LET st2 == removeValuesForProperty(w1.store, AP_POWER_STATE_REQ)
                 w2 == writeValue(st2, createApPowerStateReq(REQ_ON, t), TRUE)
             IN  [code |-> w2.code, store |-> w2.store,
                  notified |-> w1.notified \o w2.notified]
        ELSE IF state \in {DEEP_SLEEP_ENTRY, HIBERNATION_ENTRY, SHUTDOWN_START}
        THEN LET w2 == writeValue(w1.store, createApPowerStateReq(REQ_FINISHED, t), TRUE)
             IN  [code |-> w2.code, store |-> w2.store,
                  notified |-> w1.notified \o w2.notified]
        ELSE [code |-> StatusOK, store |-> w1.store, notified |-> w1.notified]

isHvacPropAndHvacNotAvailable(st, propId) ==
    /\ propId \in HVAC_POWER_PROPERTIES
    /\ LET hvacPowerOnResult == readValue(st, HVAC_POWER_ON, HVAC_ALL)
       IN  /\ hvacPowerOnResult.code = StatusOK
           /\ Len(hvacPowerOnResult.value[1].value) = 1
           /\ hvacPowerOnResult.value[1].value[1] = 0

\* Mutant of setUserHalProp: the request value is written when the HAL has none
setUserHalPropWritesRequest(st, value, hal) ==
    IF ~hal.ok
    THEN [code |-> hal.code, store |-> st, notified |-> <<>>]
    ELSE IF hal.value # <<>>
    THEN writeValue(st, hal.value[1], FALSE)
    ELSE writeValue(st, value, FALSE)

setUserHalProp(st, value, hal) ==
    IF ~hal.ok
    THEN [code |-> hal.code, store |-> st, notified |-> <<>>]
    ELSE IF hal.value # <<>>
    THEN writeValue(st, hal.value[1], FALSE)
    ELSE [code |-> StatusOK, store |-> st, notified |-> <<>>]

getUserHalProp(value, t, hal) ==
    IF ~hal.ok
    THEN [code |-> hal.code, value |-> <<>>]
    ELSE IF hal.value # <<>>
    THEN [code |-> StatusOK, value |-> <<[hal.value[1] EXCEPT !.timestamp = t]>>]
    ELSE [code |-> INTERNAL_ERROR, value |-> <<>>]

\* Mutant of getEchoReverseBytes: the bytes come back in the order stored
getEchoReverseBytesNoReverse(st, value, t) ==
    LET readResult == readValue(st, value.prop, value.areaId)
    IN  IF readResult.code # StatusOK
        THEN readResult
        ELSE [code |-> StatusOK,
              value |-> <<[readResult.value[1] EXCEPT !.timestamp = t]>>]

getEchoReverseBytes(st, value, t) ==
    LET readResult == readValue(st, value.prop, value.areaId)
    IN  IF readResult.code # StatusOK
        THEN readResult
        ELSE [code |-> StatusOK,
              value |-> <<[readResult.value[1] EXCEPT
                              !.timestamp = t,
                              !.value = ReverseBytes(readResult.value[1].value)]>>]

\* [special, code, value]: special is *isSpecialValue
maybeGetSpecialValue(st, value, t, hal) ==
    IF UserHalSupported(value.prop)
    THEN [special |-> TRUE] @@ getUserHalProp(value, t, hal)
    ELSE IF value.prop = ECHO_REVERSE_BYTES
    THEN [special |-> TRUE] @@ getEchoReverseBytes(st, value, t)
    ELSE [special |-> FALSE, code |-> StatusOK, value |-> <<>>]

\* Mutant of maybeSetSpecialValue: the HVAC power gate is missing
maybeSetSpecialValueNoHvacGate(st, value, t, hal) ==
    IF UserHalSupported(value.prop)
    THEN [special |-> TRUE] @@ setUserHalProp(st, value, hal)
    ELSE IF value.prop = AP_POWER_STATE_REPORT
    THEN [special |-> TRUE] @@ setApPowerStateReport(st, value, t)
    ELSE IF value.prop = VEHICLE_MAP_SERVICE
    THEN [special |-> TRUE, code |-> StatusOK, store |-> st, notified |-> <<>>]
    ELSE [special |-> FALSE, code |-> StatusOK, store |-> st, notified |-> <<>>]

\* [special, code, store, notified]: special is *isSpecialValue
maybeSetSpecialValue(st, value, t, hal) ==
    IF UserHalSupported(value.prop)
    THEN [special |-> TRUE] @@ setUserHalProp(st, value, hal)
    ELSE IF isHvacPropAndHvacNotAvailable(st, value.prop)
    THEN [special |-> TRUE, code |-> NOT_AVAILABLE, store |-> st, notified |-> <<>>]
    ELSE IF value.prop = AP_POWER_STATE_REPORT
    THEN [special |-> TRUE] @@ setApPowerStateReport(st, value, t)
    ELSE IF value.prop = VEHICLE_MAP_SERVICE
    THEN [special |-> TRUE, code |-> StatusOK, store |-> st, notified |-> <<>>]
    ELSE [special |-> FALSE, code |-> StatusOK, store |-> st, notified |-> <<>>]

\* Mutant of setValue: the stored value is removed before the write, as the
\* periodic refresh does
setValueRemovesFirst(st, value, t, hal) ==
    LET setSpecialValueResult == maybeSetSpecialValue(st, value, t, hal)
    IN  IF setSpecialValueResult.special
        THEN [code |-> setSpecialValueResult.code,
              store |-> setSpecialValueResult.store,
              notified |-> setSpecialValueResult.notified]
        ELSE writeValue(removeValue(st, value), [value EXCEPT !.timestamp = t], FALSE)

\* Mutant of setValue: the result of the write to the store is not checked
setValueIgnoresWriteError(st, value, t, hal) ==
    LET setSpecialValueResult == maybeSetSpecialValue(st, value, t, hal)
        writeResult == writeValue(st, [value EXCEPT !.timestamp = t], FALSE)
    IN  IF setSpecialValueResult.special
        THEN [code |-> setSpecialValueResult.code,
              store |-> setSpecialValueResult.store,
              notified |-> setSpecialValueResult.notified]
        ELSE [code |-> StatusOK, store |-> writeResult.store,
              notified |-> writeResult.notified]

\* Mutant of setValue: a special value that was set goes on to the generic write
setValueFallsThrough(st, value, t, hal) ==
    LET setSpecialValueResult == maybeSetSpecialValue(st, value, t, hal)
    IN  IF setSpecialValueResult.special /\ setSpecialValueResult.code # StatusOK
        THEN [code |-> setSpecialValueResult.code,
              store |-> setSpecialValueResult.store,
              notified |-> setSpecialValueResult.notified]
        ELSE LET writeResult == writeValue(setSpecialValueResult.store,
                                           [value EXCEPT !.timestamp = t], FALSE)
             IN  [code |-> writeResult.code, store |-> writeResult.store,
                  notified |-> setSpecialValueResult.notified
                                    \o writeResult.notified]

\* [code, store, notified]
setValue(st, value, t, hal) ==
    LET setSpecialValueResult == maybeSetSpecialValue(st, value, t, hal)
    IN  IF setSpecialValueResult.special
        THEN [code |-> setSpecialValueResult.code,
              store |-> setSpecialValueResult.store,
              notified |-> setSpecialValueResult.notified]
        ELSE writeValue(st, [value EXCEPT !.timestamp = t], FALSE)

\* Mutant of getValue: a failed read of the store is reported as INTERNAL_ERROR
getValueWrongCode(st, value, t, hal) ==
    LET result == maybeGetSpecialValue(st, value, t, hal)
        readResult == readValue(st, value.prop, value.areaId)
    IN  IF result.special
        THEN [code |-> result.code, value |-> result.value]
        ELSE IF readResult.code # StatusOK
        THEN [code |-> INTERNAL_ERROR, value |-> <<>>]
        ELSE readResult

\* [code, value]
getValue(st, value, t, hal) ==
    LET result == maybeGetSpecialValue(st, value, t, hal)
    IN  IF result.special
        THEN [code |-> result.code, value |-> result.value]
        ELSE readValue(st, value.prop, value.areaId)

\* Mutant of handleSetValueRequest: the status of the result is always OK
handleSetValueRequestAlwaysOk(st, request, t, hal) ==
    LET result == setValue(st, request.value, t, hal)
    IN  [result |-> [requestId |-> request.requestId, status |-> StatusOK,
                     prop |-> <<>>],
         store |-> result.store,
         notified |-> result.notified]

\* A SetValueResult, with the store and notifications the call leaves
handleSetValueRequest(st, request, t, hal) ==
    LET result == setValue(st, request.value, t, hal)
    IN  [result |-> [requestId |-> request.requestId, status |-> result.code,
                     prop |-> <<>>],
         store |-> result.store,
         notified |-> result.notified]

\* A GetValueResult
handleGetValueRequest(st, request, t, hal) ==
    LET result == getValue(st, request.value, t, hal)
    IN  [result |-> [requestId |-> request.requestId, status |-> result.code,
                     prop |-> result.value],
         store |-> st,
         notified |-> <<>>]

\* FakeVehicleHardware::onValueChangeCallback: the invocations of the registered
\* listener it makes for one notification of the store, each with its batch
onValueChangeCallback(listener, value) ==
    IF listener = "null"
    THEN <<>>
    ELSE <<[listener |-> listener, updatedValues |-> <<value>>]>>

\* The store invokes its change callback once per notification, in order
RECURSIVE onValueChanges(_, _)
onValueChanges(listener, notified) ==
    IF notified = <<>>
    THEN <<>>
    ELSE onValueChangeCallback(listener, Head(notified))
            \o onValueChanges(listener, Tail(notified))

\* What the FakeUserHal delegate may answer for a request on `value`
HalOutcomes(value) ==
    IF UserHalSupported(value.prop)
    THEN {[ok |-> FALSE, code |-> INVALID_ARG, value |-> <<>>],
          [ok |-> TRUE, code |-> StatusOK, value |-> <<>>],
          [ok |-> TRUE, code |-> StatusOK,
           value |-> <<PropValue(value.prop, 0, 0, "AVAILABLE", <<1>>)>>]}
    ELSE {[ok |-> TRUE, code |-> StatusOK, value |-> <<>>]}

(***************************************************************************)
(* Initial state: the state after the constructor and init().              *)
(***************************************************************************)
Producers == {"p1", "p2"}
Callbacks == {"cb1", "cb2"}

\* storePropInitialValue: the default values init() writes, stamped with the
\* clock at construction; properties with an empty initial value are skipped
InitialStore ==
    [k \in {<<PERF_VEHICLE_SPEED, 0>>, <<HVAC_POWER_ON, HVAC_ALL>>} |->
        PropValue(k[1], k[2], 0, "AVAILABLE", <<1>>)]

NoSet == [valid |-> FALSE]
NoGet == [valid |-> FALSE]

NoFiring == [valid |-> FALSE]
NoDump == [valid |-> FALSE, taken |-> <<>>]
NoKeyPress == [pc |-> "idle", valid |-> FALSE]

\* The two instantiations of PendingRequestHandler, and one as its constructor
\* leaves it: the queue active and empty, mThread waiting for items
Handlers == {"get", "set"}
NewHandler ==
    [mIsActive |-> TRUE, queued |-> 0, workerPc |-> "wait", left |-> 0,
     joined |-> FALSE]

\* Threads calling updateSampleRate, and what one holds before its first call
RateCallers == {"u1", "u2"}
NoArgs == [propId |-> "", areaId |-> 0, sampleRate |-> 0, action |-> <<>>]

\* The state after construction of a handler of one of the given instantiations
InitWith(kinds) ==
    /\ store = InitialStore
    /\ now = 0
    /\ written = DOMAIN InitialStore
    /\ kind \in kinds
    /\ mQueue = <<>>
    /\ mIsActive = TRUE
    /\ workerPc = "wait"
    /\ batch = <<>>
    /\ callbackToResults = <<>>
    /\ cycle = 0
    /\ drained = {}
    /\ handled = {}
    /\ invocations = <<>>
    /\ prodPc = [p \in Producers |-> "idle"]
    /\ prodCb = [p \in Producers |-> "cb1"]
    /\ prodReqs = [p \in Producers |-> <<>>]
    /\ prodNext = [p \in Producers |-> 1]
    /\ accepted = {}
    /\ rejected = {}
    /\ stopPc = "none"
    /\ stopCalls = 0
    /\ stopAt = "none"
    /\ joined = FALSE
    /\ lastSet = NoSet
    /\ lastGet = NoGet
    /\ mOnPropertyChangeCallback = "null"
    /\ delivered = <<>>
    /\ mLock = "none"
    /\ mRecurrentActions = <<>>
    /\ timerCallbacks = {}
    /\ nextAction = 1
    /\ usrPc = [t \in RateCallers |-> "idle"]
    /\ usrArgs = [t \in RateCallers |-> NoArgs]
    /\ timerPc = "wait"
    /\ running = <<>>
    /\ refreshValue = <<>>
    /\ lastRate = <<>>
    /\ lastFiring = NoFiring
    /\ registrations = [last |-> "null", all |-> {}]
    /\ enqueued = <<>>
    /\ mSavedProps = <<>>
    /\ lastDump = NoDump
    /\ keyPress = NoKeyPress
    /\ dtorPc = "none"
    /\ mGeneratorHub = "running"
    /\ pending = [k \in Handlers |-> NewHandler]

\* mPendingGetValueRequests or mPendingSetValueRequests
Init == InitWith({"get", "set"})

\* mPendingSetValueRequests
InitSet == InitWith({"set"})

(***************************************************************************)
(* ConcurrentQueue (mRequests).                                            *)
(***************************************************************************)
\* push: [queue, pushed]; an item pushed after deactivate() is ignored
push(queue, active, item) ==
    IF ~active
    THEN [queue |-> queue, pushed |-> FALSE]
    ELSE [queue |-> Append(queue, item), pushed |-> TRUE]

\* flush: every item of the queue, which is left empty
flush(queue) == [items |-> queue, queue |-> <<>>]

\* deactivate
deactivate(active) == FALSE

\* waitForItems blocks while the queue is empty and active
waitForItemsReturns(queue, active) == queue # <<>> \/ ~active

\* waitForItems: FALSE once the queue is deactivated
waitForItems(queue, active) == active

(***************************************************************************)
(* PendingRequestHandler.                                                  *)
(***************************************************************************)
\* The values a request of the call of producer p may carry: the first producer
\* mixes requests that the handler accepts with requests that it refuses, the
\* requests of the second one are all accepted
RequestValues(p) ==
    {PropValue(prop, 0, 0, "AVAILABLE", <<2>>) :
        prop \in IF p = "p1" THEN {PERF_VEHICLE_SPEED, UNREGISTERED_PROP}
                 ELSE {PERF_VEHICLE_SPEED}}

\* The values of the requests made while stop() may be called
StopRequestValues(p) == {PropValue(PERF_VEHICLE_SPEED, 0, 0, "AVAILABLE", <<2>>)}

RequestLists(Values) ==
    UNION {[1..n -> Values] : n \in 1..MaxReqs}

MakeRequests(p, values) ==
    [i \in 1..Len(values) |-> [requestId |-> <<p, i>>, value |-> values[i]]]

\* Mutant of addRequest: the item is queued whether or not the queue is active
addRequestUnchecked(queue, active, request, callback) ==
    [queue |-> Append(queue, [request |-> request, callback |-> callback]),
     pushed |-> TRUE]

\* PendingRequestHandler::addRequest
addRequest(queue, active, request, callback) ==
    push(queue, active, [request |-> request, callback |-> callback])

\* Callback handles are interchangeable: the first producer's is named cb1
CallbacksOf(p) == IF p = "p1" THEN {"cb1"} ELSE Callbacks

\* getValues / setValues entered: the caller's arguments
CallValues(p, Values) ==
    /\ prodPc[p] = "idle"
    /\ \E callback \in CallbacksOf(p), values \in RequestLists(Values) :
        /\ prodCb' = [prodCb EXCEPT ![p] = callback]
        /\ prodReqs' = [prodReqs EXCEPT ![p] = MakeRequests(p, values)]
    /\ prodPc' = [prodPc EXCEPT ![p] = "adding"]
    /\ UNCHANGED <<dumpVars, dtorVars, registrations, enqueued, lastFiring,
                   mOnPropertyChangeCallback, delivered, rateVars, timerVars,
                   storeVars, kind, mQueue, mIsActive, workerVars, prodNext,
                   accepted, rejected, stopVars, callerVars>>

\* One iteration of the loop of getValues / setValues: addRequest(request, callback)
AddRequest(p) ==
    /\ prodPc[p] = "adding"
    /\ LET request == prodReqs[p][prodNext[p]]
       IN  /\ mQueue' = addRequest(mQueue, mIsActive, request, prodCb[p]).queue
           /\ accepted' = IF mIsActive THEN accepted \cup {request.requestId}
                          ELSE accepted
           /\ rejected' = IF mIsActive THEN rejected
                          ELSE rejected \cup {request.requestId}
           /\ enqueued' = IF mIsActive THEN Append(enqueued, request.requestId)
                          ELSE enqueued
    /\ prodNext' = [prodNext EXCEPT ![p] = @ + 1]
    /\ prodPc' = [prodPc EXCEPT ![p] =
                    IF prodNext[p] = Len(prodReqs[p]) THEN "done" ELSE "adding"]
    /\ UNCHANGED <<dumpVars, dtorVars, registrations, lastFiring,
                   mOnPropertyChangeCallback, delivered, rateVars, timerVars,
                   storeVars, kind, mIsActive, workerVars, prodCb, prodReqs,
                   stopVars, callerVars>>

\* Mutant of WorkerWait: the loop ignores what waitForItems returns and goes on
\* only when there are items
WorkerWaitIgnoresStop ==
    /\ workerPc = "wait"
    /\ mQueue # <<>>
    /\ workerPc' = "flush"
    /\ UNCHANGED <<dumpVars, dtorVars, registrations, enqueued, lastFiring,
                   mOnPropertyChangeCallback, delivered, rateVars, timerVars,
                   storeVars, kind, mQueue, mIsActive, batch, callbackToResults,
                   cycle, drained, handled, invocations, prodVars, accepted, rejected,
                   stopVars, callerVars>>

\* mThread: while (mRequests.waitForItems())
WorkerWait ==
    /\ workerPc = "wait"
    /\ waitForItemsReturns(mQueue, mIsActive)
    /\ workerPc' = IF waitForItems(mQueue, mIsActive) THEN "flush" ELSE "exited"
    /\ UNCHANGED <<dumpVars, dtorVars, registrations, enqueued, lastFiring,
                   mOnPropertyChangeCallback, delivered, rateVars, timerVars,
                   storeVars, kind, mQueue, mIsActive, batch, callbackToResults,
                   cycle, drained, handled, invocations, prodVars, accepted, rejected,
                   stopVars, callerVars>>

\* handleRequestsOnce: mRequests.flush()
WorkerFlush ==
    /\ workerPc = "flush"
    /\ batch' = flush(mQueue).items
    /\ mQueue' = flush(mQueue).queue
    /\ callbackToResults' = <<>>
    /\ cycle' = cycle + 1
    /\ drained' = drained \cup
            {<<flush(mQueue).items[i].request.requestId, cycle + 1>> :
                i \in 1..Len(flush(mQueue).items)}
    /\ workerPc' = IF flush(mQueue).items = <<>> THEN "wait" ELSE "handle"
    /\ UNCHANGED <<dumpVars, dtorVars, registrations, enqueued, lastFiring,
                   mOnPropertyChangeCallback, delivered, rateVars, timerVars,
                   storeVars, kind, mIsActive, handled, invocations, prodVars,
                   accepted, rejected, stopVars, callerVars>>

\* Mutant of pushResult: the result replaces the callback's list
pushResultOverwrite(map, callback, result) ==
    [c \in DOMAIN map \cup {callback} |->
        IF c = callback THEN <<result>> ELSE map[c]]

\* Mutant of pushResult: the result is put in front of the callback's list
pushResultFront(map, callback, result) ==
    [c \in DOMAIN map \cup {callback} |->
        IF c = callback
        THEN (IF c \in DOMAIN map THEN <<result>> \o map[c] ELSE <<result>>)
        ELSE map[c]]

\* callbackToResults[rwc.callback].push_back(result)
pushResult(map, callback, result) ==
    [c \in DOMAIN map \cup {callback} |->
        IF c = callback
        THEN (IF c \in DOMAIN map THEN Append(map[c], result) ELSE <<result>>)
        ELSE map[c]]

\* mHardware->handleGetValueRequest / handleSetValueRequest, by instantiation
handleRequest(k, st, request, t, hal) ==
    IF k = "get"
    THEN handleGetValueRequest(st, request, t, hal)
    ELSE handleSetValueRequest(st, request, t, hal)

\* Mutant of WorkerHandle: the callback is also invoked inside the loop over the
\* flushed items, with the results gathered so far
WorkerHandleEager ==
    /\ workerPc = "handle"
    /\ batch # <<>>
    /\ LET rwc == Head(batch)
       IN  \E hal \in HalOutcomes(rwc.request.value) :
            LET r == handleRequest(kind, store, rwc.request, now, hal)
                map == pushResult(callbackToResults, rwc.callback, r.result)
            IN  /\ store' = r.store
                /\ written' = written \cup DOMAIN r.store
                /\ delivered' = onValueChanges(mOnPropertyChangeCallback, r.notified)
                /\ callbackToResults' = map
                /\ handled' = handled \cup {<<rwc.request.requestId, cycle>>}
                /\ invocations' = Append(invocations,
                        [cb |-> rwc.callback, results |-> map[rwc.callback],
                         cycle |-> cycle])
    /\ batch' = Tail(batch)
    /\ workerPc' = IF Tail(batch) = <<>> THEN "deliver" ELSE "handle"
    /\ UNCHANGED <<dumpVars, dtorVars, registrations, enqueued, lastFiring,
                   mOnPropertyChangeCallback, rateVars, timerVars,
                   now, kind, mQueue, mIsActive, cycle, drained, prodVars,
                   accepted, rejected, stopVars, callerVars>>

\* handleRequestsOnce: one iteration of the loop over the flushed items
WorkerHandle ==
    /\ workerPc = "handle"
    /\ batch # <<>>
    /\ LET rwc == Head(batch)
       IN  \E hal \in HalOutcomes(rwc.request.value) :
            LET r == handleRequest(kind, store, rwc.request, now, hal)
            IN  /\ store' = r.store
                /\ written' = written \cup DOMAIN r.store
                /\ delivered' = onValueChanges(mOnPropertyChangeCallback, r.notified)
                /\ callbackToResults' =
                        pushResult(callbackToResults, rwc.callback, r.result)
                /\ handled' = handled \cup {<<rwc.request.requestId, cycle>>}
    /\ batch' = Tail(batch)
    /\ workerPc' = IF Tail(batch) = <<>> THEN "deliver" ELSE "handle"
    /\ UNCHANGED <<dumpVars, dtorVars, registrations, enqueued, lastFiring,
                   mOnPropertyChangeCallback, rateVars, timerVars,
                   now, kind, mQueue, mIsActive, cycle, drained, invocations,
                   prodVars, accepted, rejected, stopVars, callerVars>>

\* Mutant of WorkerDeliver: the loop over callbackToResults returns after the
\* first callback
WorkerDeliverFirstOnly ==
    /\ workerPc = "deliver"
    /\ \E callback \in DOMAIN callbackToResults :
        /\ invocations' = Append(invocations,
                [cb |-> callback, results |-> callbackToResults[callback],
                 cycle |-> cycle])
        /\ callbackToResults' = <<>>
        /\ workerPc' = "wait"
    /\ UNCHANGED <<dumpVars, dtorVars, registrations, enqueued, lastFiring,
                   mOnPropertyChangeCallback, delivered, rateVars, timerVars,
                   storeVars, kind, mQueue, mIsActive, batch, cycle, drained,
                   handled, prodVars, accepted, rejected, stopVars, callerVars>>

\* Mutant of WorkerDeliver: the callback is invoked once per result
WorkerDeliverPerResult ==
    /\ workerPc = "deliver"
    /\ \E callback \in DOMAIN callbackToResults :
        /\ invocations' = Append(invocations,
                [cb |-> callback, results |-> <<Head(callbackToResults[callback])>>,
                 cycle |-> cycle])
        /\ callbackToResults' =
                IF Len(callbackToResults[callback]) > 1
                THEN [callbackToResults EXCEPT ![callback] = Tail(@)]
                ELSE [c \in DOMAIN callbackToResults \ {callback} |->
                        callbackToResults[c]]
        /\ workerPc' = IF /\ DOMAIN callbackToResults = {callback}
                          /\ Len(callbackToResults[callback]) = 1
                       THEN "wait" ELSE "deliver"
    /\ UNCHANGED <<dumpVars, dtorVars, registrations, enqueued, lastFiring,
                   mOnPropertyChangeCallback, delivered, rateVars, timerVars,
                   storeVars, kind, mQueue, mIsActive, batch, cycle, drained,
                   handled, prodVars, accepted, rejected, stopVars, callerVars>>

\* handleRequestsOnce: one iteration of the loop over callbackToResults, whose
\* iteration order (an unordered_map) is unspecified
WorkerDeliver ==
    /\ workerPc = "deliver"
    /\ \E callback \in DOMAIN callbackToResults :
        /\ invocations' = Append(invocations,
                [cb |-> callback, results |-> callbackToResults[callback],
                 cycle |-> cycle])
        /\ callbackToResults' =
                [c \in DOMAIN callbackToResults \ {callback} |-> callbackToResults[c]]
        /\ workerPc' = IF DOMAIN callbackToResults = {callback} THEN "wait"
                       ELSE "deliver"
    /\ UNCHANGED <<dumpVars, dtorVars, registrations, enqueued, lastFiring,
                   mOnPropertyChangeCallback, delivered, rateVars, timerVars,
                   storeVars, kind, mQueue, mIsActive, batch, cycle, drained,
                   handled, prodVars, accepted, rejected, stopVars, callerVars>>

\* PendingRequestHandler::stop: mRequests.deactivate()
StopDeactivate ==
    /\ stopPc \in {"none", "returned"}
    /\ stopCalls < MaxStops
    /\ mIsActive' = deactivate(mIsActive)
    /\ stopPc' = "join"
    /\ stopCalls' = stopCalls + 1
    /\ stopAt' = IF stopCalls = 0 THEN workerPc ELSE stopAt
    /\ UNCHANGED <<dumpVars, dtorVars, registrations, enqueued, lastFiring,
                   mOnPropertyChangeCallback, delivered, rateVars, timerVars,
                   storeVars, kind, mQueue, workerVars, prodVars, accepted,
                   rejected, joined, callerVars>>

\* PendingRequestHandler::stop: if (mThread.joinable()) mThread.join();
StopJoin ==
    /\ stopPc = "join"
    /\ joined \/ workerPc = "exited"
    /\ joined' = TRUE
    /\ stopPc' = "returned"
    /\ UNCHANGED <<dumpVars, dtorVars, registrations, enqueued, lastFiring,
                   mOnPropertyChangeCallback, delivered, rateVars, timerVars,
                   storeVars, kind, mQueue, mIsActive, workerVars, prodVars,
                   accepted, rejected, stopCalls, stopAt, callerVars>>

(***************************************************************************)
(* A caller thread using getValue/setValue directly (as dump and the timer *)
(* callbacks do), with the clock advancing.                                *)
(***************************************************************************)
\* The value of elapsedRealtimeNano() grows
Tick ==
    /\ now < MaxTime
    /\ now' = now + 1
    /\ UNCHANGED <<dumpVars, dtorVars, registrations, enqueued, lastFiring,
                   mOnPropertyChangeCallback, delivered, rateVars, timerVars,
                   store, written, kind, mQueue, mIsActive, workerVars, prodVars,
                   accepted, rejected, stopVars, callerVars>>

\* Values a caller passes to setValue; the timestamp it supplies is not the clock's
SetValues(Props, Payloads) ==
    {PropValue(p, a, MaxTime + 1, "AVAILABLE", pl) :
        p \in Props, a \in {0, HVAC_ALL}, pl \in Payloads}

\* Values a caller passes to getValue: only prop and areaId are set
GetValues(Props) ==
    {PropValue(p, a, 0, "AVAILABLE", <<>>) : p \in Props, a \in {0, HVAC_ALL}}

\* The keys whose stored value is not the same in two contents of the store
ChangedKeys(a, b) ==
    {k \in DOMAIN a \cup DOMAIN b :
        k \notin DOMAIN a \/ k \notin DOMAIN b \/ a[k] # b[k]}

\* FakeVehicleHardware::setValue called at time `now`; the clock may advance before
\* the call reads it
SetValueCall(Values) ==
    \E value \in Values, t \in {now, now + 1} :
        /\ t <= MaxTime
        /\ \E hal \in HalOutcomes(value) :
            LET r == setValue(store, value, t, hal)
            IN  /\ store' = r.store
                /\ written' = written \cup DOMAIN r.store
                /\ delivered' = onValueChanges(mOnPropertyChangeCallback, r.notified)
                /\ lastSet' = [valid |-> TRUE, value |-> value, callTime |-> now,
                               code |-> r.code, notified |-> r.notified,
                               same |-> /\ KeyOf(value) \in DOMAIN store
                                        /\ SameIgnoringTimestamp(store[KeyOf(value)],
                                                                 value),
                               changed |-> ChangedKeys(store, r.store),
                               listener |-> mOnPropertyChangeCallback,
                               lastRegistered |-> registrations.last,
                               hal |-> hal]
        /\ now' = t
        /\ lastGet' = NoGet
        /\ UNCHANGED <<dumpVars, dtorVars, registrations, enqueued, lastFiring,
                       mOnPropertyChangeCallback, rateVars, timerVars,
                   kind, mQueue, mIsActive, workerVars, prodVars, accepted,
                       rejected, stopVars>>

\* FakeVehicleHardware::getValue
GetValueCall(Values) ==
    \E value \in Values :
        /\ \E hal \in HalOutcomes(value) :
            LET r == getValue(store, value, now, hal)
            IN  lastGet' = [valid |-> TRUE, value |-> value, code |-> r.code,
                            result |-> r.value,
                            everWritten |-> KeyOf(value) \in written,
                            hal |-> hal]
        /\ UNCHANGED <<dumpVars, dtorVars, registrations, enqueued, lastFiring,
                       mOnPropertyChangeCallback, delivered, rateVars, timerVars,
                   storeVars, kind, mQueue, mIsActive, workerVars, prodVars,
                       accepted, rejected, stopVars, lastSet>>

\* Properties the caller thread uses
StoreProps ==
    {INFO_MAKE, HVAC_TEMPERATURE_SET, VEHICLE_MAP_SERVICE, UNREGISTERED_PROP}

StorePayloads == {<<0>>, <<1, 2>>}

NextStore ==
    \/ SetValueCall(SetValues(StoreProps, StorePayloads))
    \/ GetValueCall(GetValues(StoreProps))
    \/ Tick

\* One thread calling setValue and getValue
SpecStore == InitSet /\ [][NextStore]_vars

Worker == WorkerWait \/ WorkerFlush \/ WorkerHandle \/ WorkerDeliver
Stop == StopDeactivate \/ StopJoin

NextQueue ==
    \/ \E p \in Producers : CallValues(p, RequestValues(p)) \/ AddRequest(p)
    \/ Worker

NextStop ==
    \/ \E p \in Producers : CallValues(p, StopRequestValues(p)) \/ AddRequest(p)
    \/ Worker
    \/ Stop

\* The handler with its producers and its worker thread, never stopped
SpecQueue == Init /\ [][NextQueue]_vars

\* The handler with its producers, its worker thread and stop()
SpecStop == InitSet /\ [][NextStop]_vars

\* The handler never stopped, with requests that are all accepted
NextRun ==
    \/ \E p \in Producers : CallValues(p, StopRequestValues(p)) \/ AddRequest(p)
    \/ Worker

\* The handler never stopped, its worker thread scheduled fairly
SpecRunFair ==
    /\ InitSet
    /\ [][NextRun]_vars
    /\ WF_vars(Worker)

\* getValues / setValues entered by a caller that passes a single request
CallSingle(p) ==
    /\ prodPc[p] = "idle"
    /\ \E callback \in Callbacks \ CallbacksOf("p1"), value \in StopRequestValues(p) :
        /\ prodCb' = [prodCb EXCEPT ![p] = callback]
        /\ prodReqs' = [prodReqs EXCEPT ![p] = MakeRequests(p, <<value>>)]
    /\ prodPc' = [prodPc EXCEPT ![p] = "adding"]
    /\ UNCHANGED <<dumpVars, dtorVars, registrations, enqueued, lastFiring,
                   mOnPropertyChangeCallback, delivered, rateVars, timerVars,
                   storeVars, kind, mQueue, mIsActive, workerVars, prodNext,
                   accepted, rejected, stopVars, callerVars>>

\* One caller passing up to MaxReqs requests, another passing one request under a
\* callback of its own, the worker thread and stop()
NextStopFair ==
    \/ CallValues("p1", StopRequestValues("p1")) \/ AddRequest("p1")
    \/ CallSingle("p2") \/ AddRequest("p2")
    \/ Worker
    \/ Stop

\* The handler with stop(), the worker thread scheduled fairly and the thread that
\* called stop() running on to its end
SpecStopFair ==
    /\ InitSet
    /\ [][NextStopFair]_vars
    /\ WF_vars(Worker)
    /\ WF_vars(StopJoin)

(***************************************************************************)
(* Properties of the PendingRequestHandler.                                *)
(***************************************************************************)
AllRequestIds == Producers \X (1..MaxReqs)

\* The callback handle a request was submitted with
CallbackOf(rid) == prodCb[rid[1]]

\* The value a submitted request carries
RequestOf(rid) == prodReqs[rid[1]][rid[2]]

\* Where the result of request rid was delivered: <<invocation, position>>
Deliveries(rid) ==
    UNION {{<<i, j>> : j \in {jj \in 1..Len(invocations[i].results) :
                                invocations[i].results[jj].requestId = rid}} :
           i \in 1..Len(invocations)}

InvocationsOf(cb) == {i \in 1..Len(invocations) : invocations[i].cb = cb}

InvocationsIn(c, cb) ==
    {i \in 1..Len(invocations) : invocations[i].cb = cb /\ invocations[i].cycle = c}

\* Every result delivered to cb: <<invocation, position>>
ResultSlots(cb) ==
    UNION {{<<i, j>> : j \in 1..Len(invocations[i].results)} : i \in InvocationsOf(cb)}

\* Drain cycles whose callbacks have all been invoked
CompletedCycles ==
    {c \in 1..cycle : c < cycle \/ workerPc \in {"wait", "flush", "exited"}}

DrainedFor(c, cb) == {d \in drained : d[2] = c /\ CallbackOf(d[1]) = cb}

\* The call of producer p was made, and each of its requests has been delivered
CallDelivered(p) ==
    /\ prodPc[p] = "done"
    /\ \A i \in 1..Len(prodReqs[p]) : Deliveries(<<p, i>>) # {}

\* The call of producer p was made, and the worker has completed the drain cycles
\* that took its requests
CallDrained(p) ==
    /\ prodPc[p] = "done"
    /\ \A i \in 1..Len(prodReqs[p]) :
        \E c \in CompletedCycles : <<<<p, i>>, c>> \in drained

\* No other call uses the callback handle of p's call
AloneOnCallback(p) ==
    \A q \in Producers \ {p} : prodPc[q] = "idle" \/ prodCb[q] # prodCb[p]

\* The flushes that took requests of p's call
CyclesOf(p) == {d[2] : d \in {dd \in drained : dd[1][1] = p}}

\* C1: a result for a request is delivered at most once, only for a request that
\* was submitted, and only in an invocation of the callback handle the request was
\* submitted with, under every interleaving of the producers with the worker.
C1_DeliveredAtMostOnceToOwnCallback ==
    \A rid \in AllRequestIds :
        /\ Cardinality(Deliveries(rid)) <= 1
        /\ \A d \in Deliveries(rid) :
            /\ rid \in accepted
            /\ invocations[d[1]].cb = CallbackOf(rid)

\* C1 witness: two calls with different callbacks, interleaved over several drain
\* cycles, every request delivered once
C1_Witness ==
    /\ prodCb["p1"] # prodCb["p2"]
    /\ \A p \in Producers : CallDelivered(p) /\ Len(prodReqs[p]) >= 2
    /\ cycle >= 2
    /\ \E c \in 1..cycle :
        InvocationsIn(c, "cb1") # {} /\ InvocationsIn(c, "cb2") # {}

\* C2: when the handler is never stopped, every request that addRequest enqueued
\* is eventually drained, handled and delivered to its callback (worker scheduled
\* fairly).
C2_EventuallyDelivered ==
    \A rid \in AllRequestIds :
        (rid \in accepted) ~>
            (/\ \E d \in drained : d[1] = rid
             /\ \E h \in handled : h[1] = rid
             /\ \E d \in Deliveries(rid) : invocations[d[1]].cb = CallbackOf(rid))

\* C2 witness: both calls made, every request delivered, the handler never stopped
C2_Witness ==
    /\ mIsActive
    /\ stopCalls = 0
    /\ \A p \in Producers : CallDelivered(p)
    /\ Cardinality(accepted) >= 3

\* C3 as stated: a call carrying n requests with one callback handle gives exactly
\* one invocation of that callback, with a result list of length n.
C3_OneInvocationPerCall ==
    \A p \in Producers :
        (CallDrained(p) /\ AloneOnCallback(p)) =>
            /\ Cardinality(InvocationsOf(prodCb[p])) = 1
            /\ \A i \in InvocationsOf(prodCb[p]) :
                Len(invocations[i].results) = Len(prodReqs[p])

\* C3 amended: a call carrying n requests with one callback handle gives between
\* one and n invocations of that callback, none with an empty list, whose result
\* lists together hold n results, one per request; it is one invocation with a
\* list of length n when one flush of the queue takes all n requests.
C3_InvocationsPerCall ==
    \A p \in Producers :
        (prodPc[p] # "idle" /\ AloneOnCallback(p)) =>
            /\ Cardinality(ResultSlots(prodCb[p])) <= Len(prodReqs[p])
            /\ \A i \in InvocationsOf(prodCb[p]) : invocations[i].results # <<>>
            /\ CallDrained(p) =>
                /\ Cardinality(InvocationsOf(prodCb[p])) \in 1..Len(prodReqs[p])
                /\ Cardinality(ResultSlots(prodCb[p])) = Len(prodReqs[p])
                /\ \A i \in 1..Len(prodReqs[p]) :
                        Cardinality(Deliveries(<<p, i>>)) = 1
                /\ Cardinality(CyclesOf(p)) = 1 =>
                        Cardinality(InvocationsOf(prodCb[p])) = 1

\* C3 witness: the worker flushed between two addRequest calls of one call, whose
\* callback was therefore invoked twice
C3_Witness ==
    \E p \in Producers :
        /\ CallDelivered(p)
        /\ AloneOnCallback(p)
        /\ Len(prodReqs[p]) = 2
        /\ Cardinality(InvocationsOf(prodCb[p])) = 2

\* C4: in every drain cycle, each callback handle with a request in the drained
\* batch is invoked exactly once, with as many results as the batch holds requests
\* of that handle; a callback with no request in the batch is not invoked.
C4_OneInvocationPerCallbackPerCycle ==
    /\ \A c \in 1..cycle, cb \in Callbacks : Cardinality(InvocationsIn(c, cb)) <= 1
    /\ \A c \in CompletedCycles, cb \in Callbacks :
        IF DrainedFor(c, cb) = {}
        THEN InvocationsIn(c, cb) = {}
        ELSE /\ Cardinality(InvocationsIn(c, cb)) = 1
             /\ \A i \in InvocationsIn(c, cb) :
                    Len(invocations[i].results) = Cardinality(DrainedFor(c, cb))

\* C4 witness: a completed cycle whose batch held two requests of one callback and
\* a request of the other, after an earlier cycle
C4_Witness ==
    \E c \in CompletedCycles :
        /\ c >= 2
        /\ Cardinality(DrainedFor(c, "cb1")) >= 2
        /\ DrainedFor(c, "cb2") # {}

\* What handling a request of RequestValues gives, whatever else is in its batch
ExpectedStatus(k, propId) ==
    IF propId # UNREGISTERED_PROP THEN StatusOK
    ELSE IF k = "get" THEN NOT_AVAILABLE
    ELSE INVALID_ARG

\* C5: every request of a drained batch yields exactly one result, carrying the
\* request's id and the status of its own handler call; a failing request changes
\* nothing in the results of the other requests of its batch.
C5_OneResultPerRequest ==
    \A c \in CompletedCycles :
        \A d \in {dd \in drained : dd[2] = c} :
            /\ Cardinality(Deliveries(d[1])) = 1
            /\ \A slot \in Deliveries(d[1]) :
                /\ invocations[slot[1]].cycle = c
                /\ invocations[slot[1]].results[slot[2]].status =
                        ExpectedStatus(kind, RequestOf(d[1]).value.prop)
                /\ (kind = "get" /\ RequestOf(d[1]).value.prop # UNREGISTERED_PROP) =>
                        /\ Len(invocations[slot[1]].results[slot[2]].prop) = 1
                        /\ invocations[slot[1]].results[slot[2]].prop[1].prop =
                                RequestOf(d[1]).value.prop

\* C5 witness: a completed cycle of the set handler whose batch held a failing
\* request followed by a succeeding one of the same callback
C5_Witness ==
    /\ kind = "set"
    /\ \E i \in 1..Len(invocations) :
        /\ Len(invocations[i].results) >= 2
        /\ invocations[i].results[1].status = INVALID_ARG
        /\ invocations[i].results[2].status = StatusOK
        /\ invocations[i].cycle \in CompletedCycles

\* C6 as stated: when stop() returns, every request that addRequest accepted before
\* the queue was deactivated has been delivered to its callback.
C6_NothingDroppedByStop ==
    stopPc = "returned" => \A rid \in accepted : Deliveries(rid) # {}

\* What does hold at shutdown (C6): when stop() returns, every request that a flush
\* of the queue took has been handled and delivered; only the requests still in
\* the queue when it was deactivated can be left undelivered.
C6_DrainedDeliveredByStop ==
    stopPc = "returned" =>
        /\ \A d \in drained : Deliveries(d[1]) # {}
        /\ \A rid \in accepted :
            Deliveries(rid) = {} =>
                \E i \in 1..Len(mQueue) : mQueue[i].request.requestId = rid

\* C7: a request passed to addRequest after stop() deactivated the queue is never
\* drained, never handled and never delivered.
C7_RejectedNeverDelivered ==
    \A rid \in rejected :
        /\ Deliveries(rid) = {}
        /\ \A h \in handled : h[1] # rid
        /\ \A d \in drained : d[1] # rid
        /\ \A i \in 1..Len(mQueue) : mQueue[i].request.requestId # rid
        /\ \A i \in 1..Len(batch) : batch[i].request.requestId # rid

\* C7 witness: stop() was called while the worker was about to flush; a request was
\* passed to addRequest afterwards and the worker has exited
C7_Witness ==
    /\ rejected # {}
    /\ stopAt = "flush"
    /\ workerPc = "exited"
    /\ invocations # <<>>

\* C8: every call of stop() returns: the worker loop exits and is joined wherever
\* the worker was, and a later call of stop() finds the thread joined already.
C8_StopTerminates ==
    /\ (stopPc = "join") ~> (stopPc = "returned")
    /\ [](stopPc = "returned" => joined /\ workerPc = "exited" /\ ~mIsActive)
    /\ []((stopPc = "join" /\ stopCalls >= 2) => joined)

\* C8 witness: stop() was called with the worker in the middle of a batch, and a
\* second call of stop() has returned
C8_Witness ==
    /\ stopPc = "returned"
    /\ stopCalls >= 2
    /\ stopAt = "handle"

(***************************************************************************)
(* Properties of getValue and setValue.                                    *)
(***************************************************************************)
\* Properties with a dedicated get or set handler
SpecialProps ==
    {USER_HAL_PROP, ECHO_REVERSE_BYTES, AP_POWER_STATE_REPORT, VEHICLE_MAP_SERVICE}

\* C9: getValue on a key of a non-special property for which no value was ever
\* written fails with NOT_AVAILABLE and returns no value.
C9_NeverWrittenNotAvailable ==
    (/\ lastGet.valid
     /\ lastGet.value.prop \notin SpecialProps
     /\ ~lastGet.everWritten) =>
        /\ lastGet.code = NOT_AVAILABLE
        /\ lastGet.result = <<>>

\* C9 witness: after a successful setValue of another key, getValue on the key of
\* a registered property that was never written failed with NOT_AVAILABLE
C9_Witness ==
    /\ lastSet.valid
    /\ lastSet.code = StatusOK
    /\ lastSet.value.prop = HVAC_TEMPERATURE_SET
    /\ lastGet.valid
    /\ KeyOf(lastGet.value) = <<INFO_MAKE, 0>>
    /\ ~lastGet.everWritten
    /\ lastGet.code = NOT_AVAILABLE

\* The getValue that followed the last setValue, on the same key
GetAfterSet ==
    /\ lastSet.valid
    /\ lastSet.code = StatusOK
    /\ lastSet.value.prop \in RegisteredProps \ SpecialProps
    /\ lastGet.valid
    /\ KeyOf(lastGet.value) = KeyOf(lastSet.value)

\* C10 as stated: after a successful setValue(v) on a registered non-special
\* property, the next getValue on the key returns v's payload with a timestamp that
\* is at least the time at which setValue was called.
C10_ReadAfterWrite ==
    GetAfterSet =>
        /\ lastGet.code = StatusOK
        /\ lastGet.result[1].value = lastSet.value.value
        /\ lastGet.result[1].timestamp >= lastSet.callTime

\* The payload part of C10, which holds: the next getValue returns v's payload and
\* status, stamped by the clock and never with the caller's timestamp; the stamp is
\* at least the time of the call when the write changed the stored value.
C10_ReadAfterWritePayload ==
    GetAfterSet =>
        /\ lastGet.code = StatusOK
        /\ lastGet.result[1].value = lastSet.value.value
        /\ lastGet.result[1].status = lastSet.value.status
        /\ lastGet.result[1].timestamp <= now
        /\ ~lastSet.same => lastGet.result[1].timestamp >= lastSet.callTime

(***************************************************************************)
(* The listener of property changes, and the callers of setValue that it   *)
(* observes.                                                               *)
(***************************************************************************)
Listeners == {"l1"}

\* Mutant of registerOnPropertyChangeEvent: a listener already registered is kept
registerOnPropertyChangeEventKeepsFirst(slot, callback) ==
    IF slot = "null" THEN callback ELSE slot

\* mOnPropertyChangeCallback = std::move(callback): the new content of the slot
registerOnPropertyChangeEvent(slot, callback) == callback

\* FakeVehicleHardware::registerOnPropertyChangeEvent called with one of the given
\* listener handles; the call holds mLock from its first to its last statement
RegisterListener(Handles) ==
    /\ mLock = "none"
    /\ \E callback \in Handles :
        /\ mOnPropertyChangeCallback' =
                registerOnPropertyChangeEvent(mOnPropertyChangeCallback, callback)
        /\ registrations' = [last |-> callback,
                             all |-> registrations.all \cup {callback}]
    /\ UNCHANGED <<dumpVars, dtorVars, enqueued, lastFiring,
                   storeVars, kind, mQueue, mIsActive, workerVars, prodVars,
                   accepted, rejected, stopVars, callerVars, delivered, rateVars,
                   timerVars>>

RegisterOnPropertyChangeEvent == RegisterListener(Listeners)

\* Values passed to setValue: plain, HVAC and map-service properties on permitted
\* and on other areas, an unknown property, and a power report on a wrong area
FacadeSetValues ==
    SetValues({INFO_MAKE, HVAC_POWER_ON, HVAC_TEMPERATURE_SET, VEHICLE_MAP_SERVICE,
               UNREGISTERED_PROP}, {<<0>>, <<1>>})
        \cup SetValues({AP_POWER_STATE_REPORT}, {<<WAIT_FOR_VHAL, 0>>})

NextFacade ==
    \/ SetValueCall({v \in FacadeSetValues :
                        v.prop = AP_POWER_STATE_REPORT => v.areaId # 0})
    \/ RegisterOnPropertyChangeEvent
    \/ Tick

\* Threads calling setValue, with a listener that may be registered
SpecFacade == InitSet /\ [][NextFacade]_vars

\* The HVAC master power property reads as a single int value equal to 0
HvacPowerOff(st) ==
    /\ <<HVAC_POWER_ON, HVAC_ALL>> \in DOMAIN st
    /\ st[<<HVAC_POWER_ON, HVAC_ALL>>].value = <<0>>

\* The last setValue named a key that no configuration has
UnknownKey(value) ==
    \/ value.prop \notin RegisteredProps
    \/ value.areaId \notin ConfigAreas[value.prop]

NotifySetValues ==
    {v \in SetValues({INFO_MAKE}, {<<0>>, <<1>>}) : v.areaId = 0}
        \cup {v \in SetValues({AP_POWER_STATE_REPORT}, {<<DEEP_SLEEP_ENTRY, 0>>}) :
                    v.areaId = 0}

NextNotify ==
    \/ SetValueCall(NotifySetValues)
    \/ RegisterOnPropertyChangeEvent
    \/ Tick

\* Writes to the store, observed by a listener
SpecNotify == InitSet /\ [][NextNotify]_vars

\* The invocations of the listener, during the last operation, for a value of key
EventsFor(key) ==
    {i \in 1..Len(delivered) :
        \E j \in 1..Len(delivered[i].updatedValues) :
            KeyOf(delivered[i].updatedValues[j]) = key}

\* C12: with a listener registered, a write (updateStatus=false) of a value whose
\* payload and status equal the stored value of the key invokes the listener zero
\* times, a write of a value that differs invokes it exactly once, with the value
\* written, and a write with updateStatus=true (AP_POWER_STATE_REQ) invokes it
\* exactly once although the stored value is the same.
C12_ListenerOncePerChange ==
    (lastSet.valid /\ lastSet.code = StatusOK /\ lastSet.listener # "null") =>
        /\ Cardinality(EventsFor(KeyOf(lastSet.value))) =
                IF lastSet.same THEN 0 ELSE 1
        /\ \A i \in EventsFor(KeyOf(lastSet.value)) :
                /\ delivered[i].listener = lastSet.listener
                /\ delivered[i].updatedValues = <<store[KeyOf(lastSet.value)]>>
                /\ SameIgnoringTimestamp(store[KeyOf(lastSet.value)], lastSet.value)
        /\ IF lastSet.value.prop = AP_POWER_STATE_REPORT
           THEN /\ Cardinality(EventsFor(<<AP_POWER_STATE_REQ, 0>>)) = 1
                /\ Len(delivered) = IF lastSet.same THEN 1 ELSE 2
           ELSE Len(delivered) = IF lastSet.same THEN 0 ELSE 1

\* C12 witness: the same power report was set twice; the second call changed no
\* stored payload and the listener was invoked once, for the request property
\* written with updateStatus=true
C12_Witness ==
    /\ lastSet.valid
    /\ lastSet.listener # "null"
    /\ lastSet.value.prop = AP_POWER_STATE_REPORT
    /\ lastSet.same
    /\ Len(delivered) = 1
    /\ <<INFO_MAKE, 0>> \in DOMAIN store

(***************************************************************************)
(* The HVAC power gate.                                                    *)
(***************************************************************************)
HvacProps == {HVAC_POWER_ON, HVAC_TEMPERATURE_SET}

NextHvac ==
    \/ SetValueCall(SetValues(HvacProps, {<<0>>, <<1>>}))
    \/ GetValueCall(GetValues(HvacProps))
    \/ Tick

\* A thread setting and getting the HVAC power property and a property gated by it
SpecHvac == InitSet /\ [][NextHvac]_vars

\* The stored HVAC master power value is 1
HvacPowerIsOn(st) ==
    /\ <<HVAC_POWER_ON, HVAC_ALL>> \in DOMAIN st
    /\ st[<<HVAC_POWER_ON, HVAC_ALL>>].value = <<1>>

\* C13: while HVAC_POWER_ON reads as a single int 0, setValue on an HVAC-dependent
\* property fails with NOT_AVAILABLE and leaves the store unchanged; setValue of
\* HVAC_POWER_ON itself is never refused by the gate; once HVAC_POWER_ON is 1, the
\* setValue on the dependent property succeeds and the getValue that follows
\* returns the payload set.
C13_HvacGateOnSet ==
    lastSet.valid =>
        /\ (lastSet.value.prop \in HVAC_POWER_PROPERTIES /\ HvacPowerOff(store)) =>
                /\ lastSet.code = NOT_AVAILABLE
                /\ lastSet.changed = {}
        /\ (lastSet.value.prop = HVAC_POWER_ON /\ ~UnknownKey(lastSet.value)) =>
                /\ lastSet.code = StatusOK
                /\ store[KeyOf(lastSet.value)].value = lastSet.value.value
        /\ (/\ lastSet.value.prop \in HVAC_POWER_PROPERTIES
            /\ ~UnknownKey(lastSet.value)
            /\ HvacPowerIsOn(store)) =>
                /\ lastSet.code = StatusOK
                /\ store[KeyOf(lastSet.value)].value = lastSet.value.value
                /\ (lastGet.valid /\ KeyOf(lastGet.value) = KeyOf(lastSet.value)) =>
                        /\ lastGet.code = StatusOK
                        /\ lastGet.result[1].value = lastSet.value.value

\* C13 witness: HVAC power was switched off and on again (its stored value 1 is
\* stamped later than the initial one); the setValue on the dependent property
\* then succeeded and the getValue after it returned the payload set
C13_Witness ==
    /\ HvacPowerIsOn(store)
    /\ store[<<HVAC_POWER_ON, HVAC_ALL>>].timestamp > 0
    /\ lastSet.valid
    /\ KeyOf(lastSet.value) = <<HVAC_TEMPERATURE_SET, HVAC_ALL>>
    /\ lastSet.value.value = <<0>>
    /\ lastSet.code = StatusOK
    /\ lastGet.valid
    /\ KeyOf(lastGet.value) = KeyOf(lastSet.value)
    /\ lastGet.code = StatusOK

\* C14 as stated: while HVAC_POWER_ON reads as a single int 0, getValue on an
\* HVAC-dependent property fails with NOT_AVAILABLE.
C14_HvacGateOnGet ==
    (/\ lastGet.valid
     /\ lastGet.value.prop \in HVAC_POWER_PROPERTIES
     /\ HvacPowerOff(store)) =>
        lastGet.code = NOT_AVAILABLE

(***************************************************************************)
(* The AP power state handshake.                                           *)
(***************************************************************************)
\* The values of VehicleApPowerStateReport
ReportKinds == 1..10

OnReports == {WAIT_FOR_VHAL, DEEP_SLEEP_EXIT, HIBERNATION_EXIT, SHUTDOWN_CANCELLED}
FinishedReports == {DEEP_SLEEP_ENTRY, HIBERNATION_ENTRY, SHUTDOWN_START}

PowerSetValues ==
    {v \in SetValues({AP_POWER_STATE_REPORT}, {<<k, 0>> : k \in ReportKinds}) :
        v.areaId = 0}

NextPower ==
    \/ SetValueCall(PowerSetValues)
    \/ RegisterOnPropertyChangeEvent
    \/ Tick

\* Power state reports of every kind, observed by a listener
SpecPower == InitSet /\ [][NextPower]_vars

\* The last setValue was a successful power state report of one of the kinds
ReportedOneOf(kinds) ==
    /\ lastSet.valid
    /\ lastSet.value.prop = AP_POWER_STATE_REPORT
    /\ lastSet.code = StatusOK
    /\ lastSet.value.value[1] \in kinds

\* The notifications of the store, during the last setValue, for a value of key
NotifiedFor(key) ==
    {i \in 1..Len(lastSet.notified) : KeyOf(lastSet.notified[i]) = key}

\* C15: a successful setValue of AP_POWER_STATE_REPORT of kind WAIT_FOR_VHAL,
\* DEEP_SLEEP_EXIT, HIBERNATION_EXIT or SHUTDOWN_CANCELLED leaves AP_POWER_STATE_REQ
\* stored as [ON, 0] and produces exactly one change event for it, carrying that
\* value, also when the report is a repetition and the request is ON already.
C15_OnReportAlwaysNotifies ==
    ReportedOneOf(OnReports) =>
        /\ <<AP_POWER_STATE_REQ, 0>> \in DOMAIN store
        /\ store[<<AP_POWER_STATE_REQ, 0>>].value = <<REQ_ON, 0>>
        /\ Cardinality(NotifiedFor(<<AP_POWER_STATE_REQ, 0>>)) = 1
        /\ \A i \in NotifiedFor(<<AP_POWER_STATE_REQ, 0>>) :
                lastSet.notified[i] = store[<<AP_POWER_STATE_REQ, 0>>]
        /\ lastSet.listener # "null" =>
                /\ Cardinality(EventsFor(<<AP_POWER_STATE_REQ, 0>>)) = 1
                /\ \A i \in EventsFor(<<AP_POWER_STATE_REQ, 0>>) :
                        delivered[i].updatedValues = <<store[<<AP_POWER_STATE_REQ, 0>>]>>

\* C15 witness: WAIT_FOR_VHAL was reported again, unchanged, while the request was
\* ON; the listener got one event, for the request
C15_Witness ==
    /\ ReportedOneOf({WAIT_FOR_VHAL})
    /\ lastSet.same
    /\ lastSet.listener # "null"
    /\ lastSet.changed = {<<AP_POWER_STATE_REQ, 0>>}
    /\ Len(delivered) = 1

\* C16: a successful setValue of AP_POWER_STATE_REPORT of kind DEEP_SLEEP_ENTRY,
\* HIBERNATION_ENTRY or SHUTDOWN_START leaves AP_POWER_STATE_REQ stored as
\* [FINISHED, 0] and produces a change event for it.
C16_EntryReportFinishes ==
    ReportedOneOf(FinishedReports) =>
        /\ <<AP_POWER_STATE_REQ, 0>> \in DOMAIN store
        /\ store[<<AP_POWER_STATE_REQ, 0>>].value = <<REQ_FINISHED, 0>>
        /\ NotifiedFor(<<AP_POWER_STATE_REQ, 0>>) # {}
        /\ \A i \in NotifiedFor(<<AP_POWER_STATE_REQ, 0>>) :
                lastSet.notified[i] = store[<<AP_POWER_STATE_REQ, 0>>]
        /\ lastSet.listener # "null" => EventsFor(<<AP_POWER_STATE_REQ, 0>>) # {}

\* C16 witness: SHUTDOWN_START reported after HIBERNATION_ENTRY, the request being
\* FINISHED already, with a listener registered
C16_Witness ==
    /\ ReportedOneOf({SHUTDOWN_START})
    /\ lastSet.changed = {<<AP_POWER_STATE_REPORT, 0>>}
    /\ lastSet.listener # "null"
    /\ Len(delivered) = 2

\* C17 as stated: a setValue of AP_POWER_STATE_REPORT of a kind other than the
\* seven recognized ones returns success, leaves the whole store unchanged and
\* produces no change event.
C17_OtherReportIgnored ==
    (/\ lastSet.valid
     /\ lastSet.value.prop = AP_POWER_STATE_REPORT
     /\ lastSet.value.value[1] \notin OnReports \cup FinishedReports) =>
        /\ lastSet.code = StatusOK
        /\ lastSet.changed = {}
        /\ lastSet.notified = <<>>
        /\ delivered = <<>>

\* C17 amended: a setValue of AP_POWER_STATE_REPORT of a kind other than the seven
\* recognized ones returns success and is stored as the value of
\* AP_POWER_STATE_REPORT like any report, with a change event for it when it
\* differs from the stored report; AP_POWER_STATE_REQ and every other key are
\* left unchanged and there is no change event for AP_POWER_STATE_REQ.
C17_OtherReportOnlyStored ==
    (/\ lastSet.valid
     /\ lastSet.value.prop = AP_POWER_STATE_REPORT
     /\ lastSet.value.value[1] \notin OnReports \cup FinishedReports) =>
        /\ lastSet.code = StatusOK
        /\ store[<<AP_POWER_STATE_REPORT, 0>>].value = lastSet.value.value
        /\ lastSet.changed =
                IF lastSet.same THEN {} ELSE {<<AP_POWER_STATE_REPORT, 0>>}
        /\ lastSet.notified =
                IF lastSet.same THEN <<>> ELSE <<store[<<AP_POWER_STATE_REPORT, 0>>]>>
        /\ delivered = onValueChanges(lastSet.listener, lastSet.notified)

\* C17 witness: an unrecognized report arrived while the request was FINISHED; it
\* replaced the stored report, the listener got one event, the request stayed
C17_Witness ==
    /\ lastSet.valid
    /\ lastSet.value.prop = AP_POWER_STATE_REPORT
    /\ lastSet.value.value[1] \notin OnReports \cup FinishedReports
    /\ <<AP_POWER_STATE_REQ, 0>> \in DOMAIN store
    /\ store[<<AP_POWER_STATE_REQ, 0>>].value = <<REQ_FINISHED, 0>>
    /\ lastSet.changed = {<<AP_POWER_STATE_REPORT, 0>>}
    /\ lastSet.listener # "null"
    /\ Len(delivered) = 1

(***************************************************************************)
(* RecurrentTimer: the set of callbacks registered with it.                *)
(***************************************************************************)
registerTimerCallback(callbacks, action) == callbacks \cup {action}

unregisterTimerCallback(callbacks, action) == callbacks \ {action}

(***************************************************************************)
(* updateSampleRate, step by step, called from several threads.            *)
(***************************************************************************)
\* PropIdAreaId of the arguments of a call, and of a refresh action
ArgsKey(args) == <<args.propId, args.areaId>>

\* Calls with a non-zero rate that have not yet created their action
PendingActions ==
    {t \in RateCallers : usrPc[t] \in {"lock", "find", "rate"}
                            /\ usrArgs[t].sampleRate # 0}

\* updateSampleRate(propId, areaId, sampleRate) entered
UsrCall(t, Keys, Rates) ==
    /\ usrPc[t] = "idle"
    /\ \E key \in Keys, rate \in Rates :
        /\ rate # 0 => nextAction + Cardinality(PendingActions) <= MaxActions
        /\ usrArgs' = [usrArgs EXCEPT ![t] =
                [propId |-> key[1], areaId |-> key[2], sampleRate |-> rate,
                 action |-> <<>>]]
    /\ usrPc' = [usrPc EXCEPT ![t] = "lock"]
    /\ UNCHANGED <<dumpVars, dtorVars, registrations, enqueued, lastFiring,
                   storeVars, kind, mQueue, mIsActive, workerVars, prodVars,
                   accepted, rejected, stopVars, callerVars,
                   mOnPropertyChangeCallback, delivered, mLock, mRecurrentActions,
                   timerCallbacks, nextAction, lastRate, timerVars>>

\* Mutant of UsrLock: updateSampleRate does not take mLock
UsrLockNoMutex(t) ==
    /\ usrPc[t] = "lock"
    /\ usrPc' = [usrPc EXCEPT ![t] = "find"]
    /\ UNCHANGED <<dumpVars, dtorVars, registrations, enqueued, lastFiring,
                   storeVars, kind, mQueue, mIsActive, workerVars, prodVars,
                   accepted, rejected, stopVars, callerVars,
                   mOnPropertyChangeCallback, delivered, mLock, mRecurrentActions,
                   timerCallbacks, nextAction, usrArgs, lastRate, timerVars>>

\* std::scoped_lock<std::mutex> lockGuard(mLock)
UsrLock(t) ==
    /\ usrPc[t] = "lock"
    /\ mLock = "none"
    /\ mLock' = t
    /\ usrPc' = [usrPc EXCEPT ![t] = "find"]
    /\ UNCHANGED <<dumpVars, dtorVars, registrations, enqueued, lastFiring,
                   storeVars, kind, mQueue, mIsActive, workerVars, prodVars,
                   accepted, rejected, stopVars, callerVars,
                   mOnPropertyChangeCallback, delivered, mRecurrentActions,
                   timerCallbacks, nextAction, usrArgs, lastRate, timerVars>>

\* if (mRecurrentActions.find(propIdAreaId) != end) unregisterTimerCallback(...)
UsrUnregister(t) ==
    /\ usrPc[t] = "find"
    /\ timerCallbacks' =
            IF ArgsKey(usrArgs[t]) \in DOMAIN mRecurrentActions
            THEN unregisterTimerCallback(timerCallbacks,
                                         mRecurrentActions[ArgsKey(usrArgs[t])])
            ELSE timerCallbacks
    /\ usrPc' = [usrPc EXCEPT ![t] = "rate"]
    /\ UNCHANGED <<dumpVars, dtorVars, registrations, enqueued, lastFiring,
                   storeVars, kind, mQueue, mIsActive, workerVars, prodVars,
                   accepted, rejected, stopVars, callerVars,
                   mOnPropertyChangeCallback, delivered, mLock, mRecurrentActions,
                   nextAction, usrArgs, lastRate, timerVars>>

\* The rate of the call of thread t becomes the last rate of its key
RecordRate(t) ==
    [k \in DOMAIN lastRate \cup {ArgsKey(usrArgs[t])} |->
        IF k = ArgsKey(usrArgs[t]) THEN usrArgs[t].sampleRate ELSE lastRate[k]]

\* if (sampleRate == 0) return StatusCode::OK;
UsrReturnZero(t) ==
    /\ usrPc[t] = "rate"
    /\ usrArgs[t].sampleRate = 0
    /\ mLock' = IF mLock = t THEN "none" ELSE mLock
    /\ usrPc' = [usrPc EXCEPT ![t] = "idle"]
    /\ lastRate' = RecordRate(t)
    /\ UNCHANGED <<dumpVars, dtorVars, registrations, enqueued, lastFiring,
                   storeVars, kind, mQueue, mIsActive, workerVars, prodVars,
                   accepted, rejected, stopVars, callerVars,
                   mOnPropertyChangeCallback, delivered, mRecurrentActions,
                   timerCallbacks, nextAction, usrArgs, timerVars>>

\* auto action = std::make_shared<...>(...); registerTimerCallback(interval, action)
UsrRegister(t) ==
    /\ usrPc[t] = "rate"
    /\ usrArgs[t].sampleRate # 0
    /\ LET action == [id |-> nextAction, propId |-> usrArgs[t].propId,
                      areaId |-> usrArgs[t].areaId]
       IN  /\ timerCallbacks' = registerTimerCallback(timerCallbacks, action)
           /\ usrArgs' = [usrArgs EXCEPT ![t].action = <<action>>]
    /\ nextAction' = nextAction + 1
    /\ usrPc' = [usrPc EXCEPT ![t] = "assign"]
    /\ UNCHANGED <<dumpVars, dtorVars, registrations, enqueued, lastFiring,
                   storeVars, kind, mQueue, mIsActive, workerVars, prodVars,
                   accepted, rejected, stopVars, callerVars,
                   mOnPropertyChangeCallback, delivered, mLock, mRecurrentActions,
                   lastRate, timerVars>>

\* mRecurrentActions[propIdAreaId] = action; return StatusCode::OK;
UsrAssign(t) ==
    /\ usrPc[t] = "assign"
    /\ mRecurrentActions' =
            [k \in DOMAIN mRecurrentActions \cup {ArgsKey(usrArgs[t])} |->
                IF k = ArgsKey(usrArgs[t]) THEN usrArgs[t].action[1]
                ELSE mRecurrentActions[k]]
    /\ mLock' = IF mLock = t THEN "none" ELSE mLock
    /\ usrPc' = [usrPc EXCEPT ![t] = "idle"]
    /\ lastRate' = RecordRate(t)
    /\ UNCHANGED <<dumpVars, dtorVars, registrations, enqueued, lastFiring,
                   storeVars, kind, mQueue, mIsActive, workerVars, prodVars,
                   accepted, rejected, stopVars, callerVars,
                   mOnPropertyChangeCallback, delivered, timerCallbacks, nextAction,
                   usrArgs, timerVars>>

(***************************************************************************)
(* The timer thread invoking a registered refresh action.                  *)
(***************************************************************************)
\* RecurrentTimer: the deadline of a registered callback has passed
TimerFire ==
    /\ timerPc = "wait"
    /\ \E action \in timerCallbacks :
        /\ running' = <<action>>
        /\ lastFiring' = [valid |-> TRUE, key |-> <<action.propId, action.areaId>>,
                          read |-> "pending", before |-> <<>>, removals |-> 0,
                          writes |-> 0, notifications |-> 0, done |-> FALSE]
    /\ timerPc' = "get"
    /\ UNCHANGED <<dumpVars, dtorVars, registrations, enqueued,
                   storeVars, kind, mQueue, mIsActive, workerVars, prodVars,
                   accepted, rejected, stopVars, callerVars,
                   mOnPropertyChangeCallback, delivered, rateVars, refreshValue>>

\* The action without its early return: a failed read goes on to the removal
RefreshGetIgnoresFailure ==
    /\ timerPc = "get"
    /\ LET value == PropValue(running[1].propId, running[1].areaId, 0, "AVAILABLE",
                              <<>>)
       IN  \E hal \in HalOutcomes(value) :
            LET result == getValue(store, value, now, hal)
            IN  /\ timerPc' = "remove"
                /\ running' = running
                /\ refreshValue' = IF result.code # StatusOK THEN <<value>>
                                   ELSE result.value
                /\ lastFiring' = [lastFiring EXCEPT
                                    !.read = IF result.code # StatusOK THEN "failed"
                                             ELSE "ok"]
    /\ UNCHANGED <<dumpVars, dtorVars, registrations, enqueued,
                   storeVars, kind, mQueue, mIsActive, workerVars, prodVars,
                   accepted, rejected, stopVars, callerVars,
                   mOnPropertyChangeCallback, delivered, rateVars>>

\* The action: auto result = getValue(...); if (!result.ok()) return;
RefreshGet ==
    /\ timerPc = "get"
    /\ LET value == PropValue(running[1].propId, running[1].areaId, 0, "AVAILABLE",
                              <<>>)
       IN  \E hal \in HalOutcomes(value) :
            LET result == getValue(store, value, now, hal)
            IN  IF result.code # StatusOK
                THEN /\ timerPc' = "wait"
                     /\ running' = <<>>
                     /\ refreshValue' = <<>>
                     /\ lastFiring' = [lastFiring EXCEPT !.read = "failed",
                                                         !.done = TRUE]
                ELSE /\ timerPc' = "remove"
                     /\ running' = running
                     /\ refreshValue' = result.value
                     /\ lastFiring' = [lastFiring EXCEPT
                                         !.read = "ok",
                                         !.before = PayloadAt(store, KeyOf(value))]
    /\ UNCHANGED <<dumpVars, dtorVars, registrations, enqueued,
                   storeVars, kind, mQueue, mIsActive, workerVars, prodVars,
                   accepted, rejected, stopVars, callerVars,
                   mOnPropertyChangeCallback, delivered, rateVars>>

\* The action: result.value()->timestamp = elapsedRealtimeNano(); removeValue(...)
RefreshRemove ==
    /\ timerPc = "remove"
    /\ refreshValue' = <<[refreshValue[1] EXCEPT !.timestamp = now]>>
    /\ store' = removeValue(store, refreshValue[1])
    /\ lastFiring' = [lastFiring EXCEPT !.removals = @ + 1]
    /\ timerPc' = "write"
    /\ UNCHANGED <<dumpVars, dtorVars, registrations, enqueued,
                   now, written, kind, mQueue, mIsActive, workerVars, prodVars,
                   accepted, rejected, stopVars, callerVars,
                   mOnPropertyChangeCallback, delivered, rateVars, running>>

\* The action: mServerSidePropStore->writeValue(std::move(result.value()))
RefreshWrite ==
    /\ timerPc = "write"
    /\ LET writeResult == writeValue(store, refreshValue[1], FALSE)
       IN  /\ store' = writeResult.store
           /\ written' = written \cup DOMAIN writeResult.store
           /\ refreshValue' = writeResult.notified
           /\ timerPc' = IF writeResult.notified = <<>> THEN "wait" ELSE "notify"
           /\ running' = IF writeResult.notified = <<>> THEN <<>> ELSE running
           /\ lastFiring' = [lastFiring EXCEPT
                    !.writes = IF writeResult.store # store THEN @ + 1 ELSE @,
                    !.notifications = @ + Len(writeResult.notified),
                    !.done = writeResult.notified = <<>>]
    /\ UNCHANGED <<dumpVars, dtorVars, registrations, enqueued,
                   now, kind, mQueue, mIsActive, workerVars, prodVars,
                   accepted, rejected, stopVars, callerVars,
                   mOnPropertyChangeCallback, delivered, rateVars>>

\* The store's notification of the write: onValueChangeCallback, which takes mLock
RefreshNotify ==
    /\ timerPc = "notify"
    /\ mLock = "none"
    /\ delivered' = onValueChanges(mOnPropertyChangeCallback, refreshValue)
    /\ timerPc' = "wait"
    /\ running' = <<>>
    /\ refreshValue' = <<>>
    /\ lastFiring' = [lastFiring EXCEPT !.done = TRUE]
    /\ UNCHANGED <<dumpVars, dtorVars, registrations, enqueued,
                   storeVars, kind, mQueue, mIsActive, workerVars, prodVars,
                   accepted, rejected, stopVars, callerVars,
                   mOnPropertyChangeCallback, rateVars>>

\* Keys and rates passed to updateSampleRate: a property that has a value, one that
\* has none; 0 and a rate of 1 Hz
SampleKeys == {<<PERF_VEHICLE_SPEED, 0>>, <<INFO_MAKE, 0>>}
SampleRates == {0, 1}

UpdateSampleRate(t) ==
    \/ UsrCall(t, SampleKeys, SampleRates)
    \/ UsrLock(t)
    \/ UsrUnregister(t)
    \/ UsrReturnZero(t)
    \/ UsrRegister(t)
    \/ UsrAssign(t)

TimerThread == TimerFire \/ RefreshGet \/ RefreshRemove \/ RefreshWrite \/ RefreshNotify

NextTimer ==
    \/ \E t \in RateCallers : UpdateSampleRate(t)
    \/ TimerThread

\* Threads calling updateSampleRate, and the timer thread
SpecTimer == InitSet /\ [][NextTimer]_vars

(***************************************************************************)
(* Properties of periodic sampling.                                        *)
(***************************************************************************)
\* The callbacks registered with the timer that refresh key
CallbacksFor(key) ==
    {action \in timerCallbacks : <<action.propId, action.areaId>> = key}

\* Threads inside a call of updateSampleRate for key
CallsOn(key) ==
    {t \in RateCallers : usrPc[t] # "idle" /\ ArgsKey(usrArgs[t]) = key}

\* The last updateSampleRate that returned for key asked for rate 0, and no
\* non-zero rate has been requested for key since
SamplingStopped(key) ==
    /\ key \in DOMAIN lastRate
    /\ lastRate[key] = 0
    /\ \A t \in CallsOn(key) : usrArgs[t].sampleRate = 0

\* The timer thread is about to write the refreshed value of key to the store
RefreshWritePending(key) ==
    /\ timerPc = "write"
    /\ <<running[1].propId, running[1].areaId>> = key

\* C18 as stated: once updateSampleRate(p, a, 0) has returned, no periodic refresh
\* writes to the store for (p, a) until a non-zero rate is requested again,
\* wherever the timer thread was when the call was made.
C18_NoRefreshWriteAfterStop ==
    [][\A key \in SampleKeys :
        (SamplingStopped(key) /\ RefreshWritePending(key)) => timerPc' = "write"]_vars

\* What does hold after the stop (C18): no callback for the key is registered with
\* the timer, so no firing for the key starts; only a firing that was in progress
\* when the callback was unregistered still removes and writes.
C18_NoFiringStartsAfterStop ==
    \A key \in SampleKeys : SamplingStopped(key) => CallbacksFor(key) = {}

\* C19 as stated: when no updateSampleRate call is in progress for a key, the
\* recurrent-action map has an entry for the key if and only if the last
\* updateSampleRate for the key asked for a non-zero rate.
C19_MapEntryIffSampled ==
    \A key \in SampleKeys :
        CallsOn(key) = {} =>
            (key \in DOMAIN mRecurrentActions
                <=> (key \in DOMAIN lastRate /\ lastRate[key] # 0))

\* What does hold (C19): it is the timer's registration, not the map, that follows
\* the last rate: a callback for the key is registered if and only if the last
\* updateSampleRate asked for a non-zero rate, and it is the one the map holds.
C19_RegisteredIffSampled ==
    \A key \in SampleKeys :
        CallsOn(key) = {} =>
            /\ CallbacksFor(key) # {}
                    <=> (key \in DOMAIN lastRate /\ lastRate[key] # 0)
            /\ CallbacksFor(key) # {} =>
                    /\ key \in DOMAIN mRecurrentActions
                    /\ CallbacksFor(key) = {mRecurrentActions[key]}

\* C20: at every moment at most one refresh callback per key is registered with
\* the timer, under every interleaving of concurrent updateSampleRate calls; a
\* call has unregistered the key's previous callback when it registers the new
\* one, and a registered callback is the one the map holds or is about to hold.
C20_OneCallbackPerKey ==
    /\ \A key \in SampleKeys : Cardinality(CallbacksFor(key)) <= 1
    /\ \A t \in RateCallers :
            usrPc[t] = "rate" => CallbacksFor(ArgsKey(usrArgs[t])) = {}
    /\ \A action \in timerCallbacks :
            \/ /\ <<action.propId, action.areaId>> \in DOMAIN mRecurrentActions
               /\ mRecurrentActions[<<action.propId, action.areaId>>] = action
            \/ \E t \in RateCallers :
                    usrPc[t] = "assign" /\ usrArgs[t].action = <<action>>

\* C20 witness: a call has replaced the key's first callback by a new one and is
\* about to store it, while another thread's call with a non-zero rate for the
\* same key waits for mLock
C20_Witness ==
    \E t, u \in RateCallers :
        /\ usrPc[t] = "assign"
        /\ usrArgs[t].action[1].id >= 2
        /\ ArgsKey(usrArgs[t]) \in DOMAIN mRecurrentActions
        /\ usrPc[u] = "lock"
        /\ usrArgs[u].sampleRate # 0
        /\ ArgsKey(usrArgs[u]) = ArgsKey(usrArgs[t])
        /\ CallbacksFor(ArgsKey(usrArgs[t])) = {usrArgs[t].action[1]}

(***************************************************************************)
(* dump --save-prop and --restore-prop: mSavedProps.                       *)
(***************************************************************************)
\* A map without the entry of one key, and with the entry of one key set
MapWithout(map, key) == [k \in DOMAIN map \ {key} |-> map[k]]
MapWith(map, key, v) == [k \in DOMAIN map \cup {key} |-> IF k = key THEN v ELSE map[k]]

\* FakeVehicleHardware::dumpSaveProperty on parsed options: [msg, saved]
dumpSaveProperty(st, saved, value) ==
    LET readResult == readValue(st, value.prop, value.areaId)
    IN  IF readResult.code # StatusOK
        THEN [msg |-> "Failed to save current property value", saved |-> saved]
        ELSE [msg |-> "saved",
              saved |-> MapWith(saved, KeyOf(value), readResult.value[1])]

\* Mutant of dumpRestoreProperty: the saved value is popped but not written back
dumpRestorePropertyNoWrite(st, saved, value, t) ==
    IF KeyOf(value) \notin DOMAIN saved
    THEN [msg |-> "No saved property", store |-> st, saved |-> saved,
          notified |-> <<>>]
    ELSE [msg |-> "restored", store |-> st,
          saved |-> MapWithout(saved, KeyOf(value)), notified |-> <<>>]

\* Mutant of dumpRestoreProperty: the saved value stays in mSavedProps
dumpRestorePropertyKeepsSnapshot(st, saved, value, t) ==
    IF KeyOf(value) \notin DOMAIN saved
    THEN [msg |-> "No saved property", store |-> st, saved |-> saved,
          notified |-> <<>>]
    ELSE LET savedValue == [saved[KeyOf(value)] EXCEPT !.timestamp = t]
             writeResult == writeValue(st, savedValue, FALSE)
         IN  [msg |-> IF writeResult.code # StatusOK
                      THEN "Failed to restore property value" ELSE "restored",
              store |-> writeResult.store,
              saved |-> saved,
              notified |-> writeResult.notified]

\* Mutant of dumpRestoreProperty: the restore empties mSavedProps
dumpRestorePropertyDropsAll(st, saved, value, t) ==
    IF KeyOf(value) \notin DOMAIN saved
    THEN [msg |-> "No saved property", store |-> st, saved |-> saved,
          notified |-> <<>>]
    ELSE LET savedValue == [saved[KeyOf(value)] EXCEPT !.timestamp = t]
             writeResult == writeValue(st, savedValue, FALSE)
         IN  [msg |-> IF writeResult.code # StatusOK
                      THEN "Failed to restore property value" ELSE "restored",
              store |-> writeResult.store,
              saved |-> <<>>,
              notified |-> writeResult.notified]

\* FakeVehicleHardware::dumpRestoreProperty on parsed options:
\* [msg, store, saved, notified]
dumpRestoreProperty(st, saved, value, t) ==
    IF KeyOf(value) \notin DOMAIN saved
    THEN [msg |-> "No saved property", store |-> st, saved |-> saved,
          notified |-> <<>>]
    ELSE LET savedValue == [saved[KeyOf(value)] EXCEPT !.timestamp = t]
             writeResult == writeValue(st, savedValue, FALSE)
         IN  [msg |-> IF writeResult.code # StatusOK
                      THEN "Failed to restore property value" ELSE "restored",
              store |-> writeResult.store,
              saved |-> MapWithout(saved, KeyOf(value)),
              notified |-> writeResult.notified]

\* The stored value of a key, as a sequence of length 0 or 1
StoredAt(st, key) == IF key \in DOMAIN st THEN <<st[key]>> ELSE <<>>

\* dump --save-prop called by the caller thread.  lastDump.taken is the history of
\* what the store held for each key when it was last saved and not restored since.
DumpSaveProperty(Values) ==
    /\ mLock = "none"
    /\ \E value \in Values :
        LET r == dumpSaveProperty(store, mSavedProps, value)
        IN  /\ mSavedProps' = r.saved
            /\ lastDump' = [valid |-> TRUE, op |-> "save", key |-> KeyOf(value),
                            msg |-> r.msg,
                            taken |-> IF KeyOf(value) \in DOMAIN store
                                      THEN MapWith(lastDump.taken, KeyOf(value),
                                                   store[KeyOf(value)])
                                      ELSE lastDump.taken]
    /\ lastSet' = NoSet
    /\ lastGet' = NoGet
    /\ UNCHANGED <<keyPress, dtorVars, registrations, enqueued, lastFiring, storeVars,
                   kind,
                   mQueue, mIsActive, workerVars, prodVars, accepted, rejected,
                   stopVars, mOnPropertyChangeCallback, delivered, rateVars,
                   timerVars>>

\* dump --restore-prop called by the caller thread at time `now`.  lastDump.wrote
\* is the payload of the caller's last setValue if that call was made after its
\* last save, was for the restored key and succeeded.
DumpRestoreProperty(Values) ==
    /\ mLock = "none"
    /\ \E value \in Values :
        LET r == dumpRestoreProperty(store, mSavedProps, value, now)
            key == KeyOf(value)
        IN  /\ store' = r.store
            /\ written' = written \cup DOMAIN r.store
            /\ mSavedProps' = r.saved
            /\ delivered' = onValueChanges(mOnPropertyChangeCallback, r.notified)
            /\ lastDump' = [valid |-> TRUE, op |-> "restore", key |-> key,
                            msg |-> r.msg,
                            taken |-> MapWithout(lastDump.taken, key),
                            original |-> StoredAt(lastDump.taken, key),
                            before |-> StoredAt(store, key),
                            after |-> StoredAt(r.store, key),
                            wrote |-> IF /\ lastSet.valid
                                         /\ KeyOf(lastSet.value) = key
                                         /\ lastSet.code = StatusOK
                                      THEN <<lastSet.value.value>> ELSE <<>>,
                            changed |-> ChangedKeys(store, r.store),
                            savedChanged |-> ChangedKeys(mSavedProps, r.saved)]
    /\ lastGet' = NoGet
    /\ UNCHANGED <<keyPress, dtorVars, registrations, enqueued, lastFiring, now,
                   kind,
                   mQueue, mIsActive, workerVars, prodVars, accepted, rejected,
                   stopVars, lastSet, mOnPropertyChangeCallback, rateVars,
                   timerVars>>

\* Keys the saving thread names: two that have a value from the start, one that
\* has none; it writes to the first of them
DumpKeys == {<<PERF_VEHICLE_SPEED, 0>>, <<HVAC_POWER_ON, HVAC_ALL>>, <<INFO_MAKE, 0>>}
DumpValues == {PropValue(k[1], k[2], 0, "AVAILABLE", <<>>) : k \in DumpKeys}
DumpPayloads == {<<1>>, <<2>>}
DumpSetValues ==
    {v \in SetValues({PERF_VEHICLE_SPEED}, DumpPayloads) : KeyOf(v) \in DumpKeys}

NextDump ==
    \/ DumpSaveProperty(DumpValues)
    \/ DumpRestoreProperty(DumpValues)
    \/ SetValueCall(DumpSetValues)

\* One thread calling setValue, dump --save-prop and dump --restore-prop
SpecDump == InitSet /\ [][NextDump]_vars

\* C21: saving (p, a), then writing a different value to (p, a), then restoring
\* leaves the store with a value for (p, a) whose payload and status are those the
\* store held when (p, a) was saved; only the timestamp is the restore's.
C21_RestoreGivesSavedPayload ==
    (/\ lastDump.valid
     /\ lastDump.op = "restore"
     /\ lastDump.original # <<>>
     /\ lastDump.wrote # <<>>
     /\ lastDump.wrote[1] # lastDump.original[1].value)
        => /\ lastDump.msg = "restored"
           /\ lastDump.before # <<>>
           /\ lastDump.before[1].value = lastDump.wrote[1]
           /\ lastDump.after # <<>>
           /\ SameIgnoringTimestamp(lastDump.after[1], lastDump.original[1])
           /\ lastDump.after[1].timestamp >= lastDump.original[1].timestamp

\* C21 witness: a value saved at time 0 with payload 1 was overwritten by payload 2
\* and has been restored at a later time
C21_Witness ==
    /\ lastDump.valid
    /\ lastDump.op = "restore"
    /\ lastDump.original # <<>>
    /\ lastDump.original[1].value = <<1>>
    /\ lastDump.wrote = <<<<2>>>>
    /\ lastDump.before # <<>>
    /\ lastDump.before[1].value = <<2>>
    /\ lastDump.after # <<>>
    /\ lastDump.after[1].value = <<1>>
    /\ lastDump.after[1].timestamp > lastDump.original[1].timestamp

\* C22: a restore of (p, a) with no save of (p, a) since the previous restore of
\* (p, a), or with no save of it ever, reports that there is no saved property and
\* leaves the store and the saved-property map as they were.
C22_RestoreIsOneShot ==
    (/\ lastDump.valid
     /\ lastDump.op = "restore"
     /\ lastDump.original = <<>>)
        => /\ lastDump.msg = "No saved property"
           /\ lastDump.changed = {}
           /\ lastDump.savedChanged = {}
           /\ lastDump.after = lastDump.before

\* C22 witness: a second restore of a key directly after a restore of it that
\* succeeded, while the snapshot of another key is still held
C22_Witness ==
    /\ lastDump.valid
    /\ lastDump.op = "restore"
    /\ lastDump.original = <<>>
    /\ lastDump.msg = "No saved property"
    /\ lastDump.key \in written
    /\ lastDump.before # <<>>
    /\ mSavedProps # <<>>

(***************************************************************************)
(* Change propagation to the registered listener.                          *)
(***************************************************************************)
ListenerHandles == {"l1", "l2"}

NextListen ==
    \/ SetValueCall(NotifySetValues)
    \/ RegisterListener(ListenerHandles)

\* Writes to the store, with listeners registered one after another
SpecListen == InitSet /\ [][NextListen]_vars

\* C23: every change notification of the store during a setValue is forwarded as
\* one invocation of the listener that was registered last before the call, with a
\* batch of exactly one value, the notified one, in the order of the
\* notifications; while no listener has been registered the notifications are
\* dropped; a listener registered earlier is not invoked.
C23_ForwardedToLastListener ==
    lastSet.valid =>
        IF lastSet.lastRegistered = "null"
        THEN delivered = <<>>
        ELSE /\ Len(delivered) = Len(lastSet.notified)
             /\ \A i \in 1..Len(delivered) :
                    /\ delivered[i].listener = lastSet.lastRegistered
                    /\ Len(delivered[i].updatedValues) = 1
                    /\ delivered[i].updatedValues[1] = lastSet.notified[i]

\* C23 witness: after the registration of one listener and then of another, a
\* power report caused two notifications, each forwarded to the second listener
C23_Witness ==
    /\ lastSet.valid
    /\ registrations.all = ListenerHandles
    /\ lastSet.lastRegistered = "l2"
    /\ Len(lastSet.notified) = 2
    /\ Len(delivered) = 2
    /\ delivered[1].listener = "l2"
    /\ KeyOf(delivered[2].updatedValues[1]) = <<AP_POWER_STATE_REQ, 0>>

(***************************************************************************)
(* onValueChangeCallback step by step, on the timer thread, for the write   *)
(* of a refresh action.                                                    *)
(***************************************************************************)
\* std::scoped_lock<std::mutex> lockGuard(mLock)
OnValueChangeLock ==
    /\ timerPc = "notify"
    /\ mLock = "none"
    /\ mLock' = "timer"
    /\ timerPc' = "listener"
    /\ UNCHANGED <<dumpVars, dtorVars, registrations, enqueued, lastFiring,
                   storeVars, kind, mQueue, mIsActive, workerVars, prodVars,
                   accepted, rejected, stopVars, callerVars,
                   mOnPropertyChangeCallback, delivered, mRecurrentActions,
                   timerCallbacks, nextAction, usrPc, usrArgs, lastRate, running,
                   refreshValue>>

\* if (mOnPropertyChangeCallback == nullptr) return; otherwise the listener is
\* invoked with the batch.  The listener is code of the client: it returns, or it
\* calls registerOnPropertyChangeEvent or updateSampleRate on the thread that
\* invoked it, whose first statement locks mLock, a std::mutex that this thread
\* owns: the call does not return.
OnValueChangeInvoke ==
    /\ timerPc = "listener"
    /\ delivered' = onValueChanges(mOnPropertyChangeCallback, refreshValue)
    /\ \E callsBack \in BOOLEAN :
        timerPc' = IF mOnPropertyChangeCallback # "null" /\ callsBack
                   THEN "blocked" ELSE "unlock"
    /\ UNCHANGED <<dumpVars, dtorVars, registrations, enqueued, lastFiring,
                   storeVars, kind, mQueue, mIsActive, workerVars, prodVars,
                   accepted, rejected, stopVars, callerVars,
                   mOnPropertyChangeCallback, rateVars, running, refreshValue>>

\* The end of onValueChangeCallback: lockGuard is destroyed
OnValueChangeReturn ==
    /\ timerPc = "unlock"
    /\ mLock' = "none"
    /\ timerPc' = "wait"
    /\ running' = <<>>
    /\ refreshValue' = <<>>
    /\ lastFiring' = [lastFiring EXCEPT !.done = TRUE]
    /\ UNCHANGED <<dumpVars, dtorVars, registrations, enqueued,
                   storeVars, kind, mQueue, mIsActive, workerVars, prodVars,
                   accepted, rejected, stopVars, callerVars,
                   mOnPropertyChangeCallback, delivered, mRecurrentActions,
                   timerCallbacks, nextAction, usrPc, usrArgs, lastRate>>

NextReentry ==
    \/ UpdateSampleRate("u1")
    \/ RegisterOnPropertyChangeEvent
    \/ TimerFire \/ RefreshGet \/ RefreshRemove \/ RefreshWrite
    \/ OnValueChangeLock \/ OnValueChangeInvoke \/ OnValueChangeReturn

\* A thread calling updateSampleRate, a thread registering the listener, and the
\* timer thread, whose notifications reach the listener
SpecReentry == InitSet /\ [][NextReentry]_vars

\* C24 as stated: mLock is not held while the registered listener is invoked, and
\* the thread that invokes the listener is never stopped by a lock it holds itself
\* when the listener calls back into the facade.
C24_NoLockHeldInListener ==
    /\ (timerPc = "listener" /\ mOnPropertyChangeCallback # "null") => mLock = "none"
    /\ timerPc # "blocked"

(***************************************************************************)
(* ~FakeVehicleHardware: both PendingRequestHandlers, in brief (a queue is  *)
(* the number of its items, a batch the number of items left to handle),   *)
(* the generator hub, and the thread that destroys the hardware.           *)
(***************************************************************************)
\* Mutant of eventFromVehicleBus: the event passes the HVAC power gate of setValue
eventFromVehicleBusGated(st, value) ==
    IF isHvacPropAndHvacNotAvailable(st, value.prop)
    THEN [code |-> NOT_AVAILABLE, store |-> st, notified |-> <<>>]
    ELSE writeValue(st, value, FALSE)

\* FakeVehicleHardware::eventFromVehicleBus: [code, store, notified]
eventFromVehicleBus(st, value) == writeValue(st, value, FALSE)

\* getValues / setValues: addRequest on handler k; push() ignores the item once the
\* queue is deactivated
HandlerAdd(k) ==
    /\ dtorPc # "done"
    /\ pending[k].queued + pending[k].left < MaxReqs
    /\ pending' = [pending EXCEPT ![k].queued =
                        IF pending[k].mIsActive THEN @ + 1 ELSE @]
    /\ UNCHANGED <<dumpVars, dtorPc, mGeneratorHub, registrations, enqueued,
                   lastFiring, storeVars, kind, mQueue, mIsActive, workerVars,
                   prodVars, accepted, rejected, stopVars, callerVars,
                   mOnPropertyChangeCallback, delivered, rateVars, timerVars>>

\* mThread of handler k: while (mRequests.waitForItems())
HandlerWait(k) ==
    /\ pending[k].workerPc = "wait"
    /\ pending[k].queued > 0 \/ ~pending[k].mIsActive
    /\ pending' = [pending EXCEPT ![k].workerPc =
                        IF pending[k].mIsActive THEN "flush" ELSE "exited"]
    /\ UNCHANGED <<dumpVars, dtorPc, mGeneratorHub, registrations, enqueued,
                   lastFiring, storeVars, kind, mQueue, mIsActive, workerVars,
                   prodVars, accepted, rejected, stopVars, callerVars,
                   mOnPropertyChangeCallback, delivered, rateVars, timerVars>>

\* handleRequestsOnce of handler k: mRequests.flush()
HandlerFlush(k) ==
    /\ pending[k].workerPc = "flush"
    /\ pending' = [pending EXCEPT
            ![k].left = pending[k].queued,
            ![k].queued = 0,
            ![k].workerPc = IF pending[k].queued = 0 THEN "wait" ELSE "handle"]
    /\ UNCHANGED <<dumpVars, dtorPc, mGeneratorHub, registrations, enqueued,
                   lastFiring, storeVars, kind, mQueue, mIsActive, workerVars,
                   prodVars, accepted, rejected, stopVars, callerVars,
                   mOnPropertyChangeCallback, delivered, rateVars, timerVars>>

\* handleRequestsOnce of handler k: mHardware->handleGetValueRequest or
\* handleSetValueRequest for one item of the batch
HandlerHandle(k) ==
    /\ pending[k].workerPc = "handle"
    /\ pending' = [pending EXCEPT
            ![k].left = @ - 1,
            ![k].workerPc = IF pending[k].left = 1 THEN "deliver" ELSE "handle"]
    /\ UNCHANGED <<dumpVars, dtorPc, mGeneratorHub, registrations, enqueued,
                   lastFiring, storeVars, kind, mQueue, mIsActive, workerVars,
                   prodVars, accepted, rejected, stopVars, callerVars,
                   mOnPropertyChangeCallback, delivered, rateVars, timerVars>>

\* handleRequestsOnce of handler k: the callbacks are invoked with their results
HandlerDeliver(k) ==
    /\ pending[k].workerPc = "deliver"
    /\ pending' = [pending EXCEPT ![k].workerPc = "wait"]
    /\ UNCHANGED <<dumpVars, dtorPc, mGeneratorHub, registrations, enqueued,
                   lastFiring, storeVars, kind, mQueue, mIsActive, workerVars,
                   prodVars, accepted, rejected, stopVars, callerVars,
                   mOnPropertyChangeCallback, delivered, rateVars, timerVars>>

\* The position of the destructor before, inside and after stop() of handler k
BeforeStop(k) == IF k = "get" THEN "none" ELSE "stopSet"
InStop(k) == IF k = "get" THEN "joinGet" ELSE "joinSet"
AfterStop(k) == IF k = "get" THEN "stopSet" ELSE "reset"

\* ~FakeVehicleHardware: mPending<k>ValueRequests.stop(), mRequests.deactivate()
DtorDeactivate(k) ==
    /\ dtorPc = BeforeStop(k)
    /\ pending' = [pending EXCEPT ![k].mIsActive = deactivate(@)]
    /\ dtorPc' = InStop(k)
    /\ UNCHANGED <<dumpVars, mGeneratorHub, registrations, enqueued,
                   lastFiring, storeVars, kind, mQueue, mIsActive, workerVars,
                   prodVars, accepted, rejected, stopVars, callerVars,
                   mOnPropertyChangeCallback, delivered, rateVars, timerVars>>

\* Mutant of DtorJoin: stop() returns without waiting for mThread to exit
DtorJoinNoWait(k) ==
    /\ dtorPc = InStop(k)
    /\ pending' = [pending EXCEPT ![k].joined = TRUE]
    /\ dtorPc' = AfterStop(k)
    /\ UNCHANGED <<dumpVars, mGeneratorHub, registrations, enqueued,
                   lastFiring, storeVars, kind, mQueue, mIsActive, workerVars,
                   prodVars, accepted, rejected, stopVars, callerVars,
                   mOnPropertyChangeCallback, delivered, rateVars, timerVars>>

\* ~FakeVehicleHardware: mPending<k>ValueRequests.stop(), mThread.join(), which
\* returns when the worker loop has exited
DtorJoin(k) ==
    /\ dtorPc = InStop(k)
    /\ pending[k].workerPc = "exited"
    /\ pending' = [pending EXCEPT ![k].joined = TRUE]
    /\ dtorPc' = AfterStop(k)
    /\ UNCHANGED <<dumpVars, mGeneratorHub, registrations, enqueued,
                   lastFiring, storeVars, kind, mQueue, mIsActive, workerVars,
                   prodVars, accepted, rejected, stopVars, callerVars,
                   mOnPropertyChangeCallback, delivered, rateVars, timerVars>>

\* ~FakeVehicleHardware: mGeneratorHub.reset()
DtorResetGenerators ==
    /\ dtorPc = "reset"
    /\ mGeneratorHub' = "null"
    /\ dtorPc' = "done"
    /\ UNCHANGED <<dumpVars, pending, registrations, enqueued,
                   lastFiring, storeVars, kind, mQueue, mIsActive, workerVars,
                   prodVars, accepted, rejected, stopVars, callerVars,
                   mOnPropertyChangeCallback, delivered, rateVars, timerVars>>

\* Values a generator of the hub emits
GeneratorValues ==
    {PropValue(PERF_VEHICLE_SPEED, 0, now, "AVAILABLE", pl) : pl \in {<<1>>, <<2>>}}

\* GeneratorHub: a generator emits a value, passed to eventFromVehicleBus, while
\* the hub exists
GeneratorEvent ==
    /\ mGeneratorHub = "running"
    /\ \E value \in GeneratorValues :
        LET r == eventFromVehicleBus(store, value)
        IN  /\ store' = r.store
            /\ written' = written \cup DOMAIN r.store
            /\ delivered' = onValueChanges(mOnPropertyChangeCallback, r.notified)
    /\ UNCHANGED <<dumpVars, dtorVars, registrations, enqueued, lastFiring, now,
                   kind, mQueue, mIsActive, workerVars, prodVars, accepted,
                   rejected, stopVars, callerVars, mOnPropertyChangeCallback,
                   rateVars, timerVars>>

NextShutdown ==
    \/ \E k \in Handlers :
        \/ HandlerAdd(k) \/ HandlerWait(k) \/ HandlerFlush(k)
        \/ HandlerHandle(k) \/ HandlerDeliver(k)
        \/ DtorDeactivate(k) \/ DtorJoin(k)
    \/ DtorResetGenerators
    \/ GeneratorEvent

\* Callers of getValues and setValues, both worker threads, a generator, and the
\* thread that destroys the hardware
SpecShutdown == InitSet /\ [][NextShutdown]_vars

\* A request handler of handler k is running or still to run in the drained batch
HandlerRuns(k) == pending[k].workerPc \in {"flush", "handle", "deliver"}

\* C25: the destructor deactivates and joins the get worker, then deactivates and
\* joins the set worker, and resets the generator hub only when both workers have
\* exited; a worker that has been joined has exited, so no request handler runs
\* after its worker has been joined.
C25_ShutdownOrder ==
    /\ ~pending["set"].mIsActive => pending["get"].joined
    /\ \A k \in Handlers :
            pending[k].joined =>
                /\ ~pending[k].mIsActive
                /\ pending[k].workerPc = "exited"
                /\ ~HandlerRuns(k)
    /\ mGeneratorHub = "null" =>
            \A k \in Handlers : pending[k].joined /\ pending[k].workerPc = "exited"
    /\ dtorPc = "done" <=> mGeneratorHub = "null"

\* C25 witness: the destructor has finished, both workers are joined, and requests
\* that were queued before the set handler was deactivated are still in its queue
C25_Witness ==
    /\ dtorPc = "done"
    /\ mGeneratorHub = "null"
    /\ \A k \in Handlers : pending[k].joined
    /\ pending["set"].queued > 0
    /\ pending["get"].queued = 0

(***************************************************************************)
(* dump --set.                                                             *)
(***************************************************************************)
\* Mutant of dumpSetProperties: the value is written to the store without asking
\* the special set handlers
dumpSetPropertiesSkipsSpecial(st, prop, t, hal) ==
    LET setResult == writeValue(st, [prop EXCEPT !.timestamp = t], FALSE)
    IN  [msg |-> IF setResult.code = StatusOK THEN "Set property"
                 ELSE "failed to set property",
         store |-> setResult.store,
         notified |-> setResult.notified]

\* FakeVehicleHardware::dumpSetProperties on parsed options: [msg, store, notified]
dumpSetProperties(st, prop, t, hal) ==
    LET special == maybeSetSpecialValue(st, prop, t, hal)
        setResult == IF special.special
                     THEN special
                     ELSE writeValue(st, [prop EXCEPT !.timestamp = t], FALSE)
    IN  [msg |-> IF setResult.code = StatusOK THEN "Set property"
                 ELSE "failed to set property",
         store |-> setResult.store,
         notified |-> setResult.notified]

\* dump --set called by the caller thread at time `now`; the clock may advance
\* before the call reads it.  lastDump.asSetValue tells whether setValue makes the
\* same of the same value in the same state.
DumpSetProperties(Values) ==
    /\ \E value \in Values, t \in {now, now + 1} :
        /\ t <= MaxTime
        /\ \E hal \in HalOutcomes(value) :
            LET r == dumpSetProperties(store, value, t, hal)
                e == setValue(store, value, t, hal)
            IN  /\ store' = r.store
                /\ written' = written \cup DOMAIN r.store
                /\ delivered' = onValueChanges(mOnPropertyChangeCallback, r.notified)
                /\ lastDump' = [valid |-> TRUE, op |-> "set", key |-> KeyOf(value),
                                msg |-> r.msg, taken |-> lastDump.taken,
                                value |-> value,
                                changed |-> ChangedKeys(store, r.store),
                                notified |-> r.notified,
                                asSetValue |->
                                    /\ r.store = e.store
                                    /\ r.notified = e.notified
                                    /\ r.msg = "Set property" <=> e.code = StatusOK]
        /\ now' = t
    /\ lastSet' = NoSet
    /\ lastGet' = NoGet
    /\ UNCHANGED <<mSavedProps, keyPress, dtorVars, registrations, enqueued,
                   lastFiring,
                   kind, mQueue, mIsActive, workerVars, prodVars, accepted,
                   rejected, stopVars, mOnPropertyChangeCallback, rateVars,
                   timerVars>>

\* Values passed to dump --set: properties with each kind of special set handler,
\* a plain one (the HVAC power) and one that is not registered
DumpSetInputs ==
    {v \in SetValues({HVAC_POWER_ON}, {<<0>>, <<1>>}) : v.areaId = HVAC_ALL}
        \cup SetValues({HVAC_TEMPERATURE_SET}, {<<1>>})
        \cup {v \in SetValues({VEHICLE_MAP_SERVICE, USER_HAL_PROP, UNREGISTERED_PROP},
                               {<<1>>}) : v.areaId = 0}
        \cup {v \in SetValues({AP_POWER_STATE_REPORT}, {<<WAIT_FOR_VHAL, 0>>}) :
                    v.areaId = 0}

NextDumpSet == DumpSetProperties(DumpSetInputs)

\* One thread setting values through dump --set; in every state it reaches, what
\* setValue would do is computed next to what dump --set does
SpecDumpSet == InitSet /\ [][NextDumpSet]_vars

\* C26: in every state, dump --set of a parsed value leaves the store contents
\* setValue of the value would leave, makes the store send the change
\* notifications setValue would make it send, and reports success exactly when
\* setValue succeeds; and so did the last dump --set made.
C26_DumpSetIsSetValue ==
    /\ \A value \in DumpSetInputs :
        \A hal \in HalOutcomes(value) :
            LET r == dumpSetProperties(store, value, now, hal)
                e == setValue(store, value, now, hal)
            IN  /\ r.store = e.store
                /\ r.notified = e.notified
                /\ r.msg = "Set property" <=> e.code = StatusOK
    /\ (lastDump.valid /\ lastDump.op = "set") => lastDump.asSetValue

\* C26 witness: dump --set of a power report, handled by the special handler, has
\* written the report and the request and made the store notify both; before it,
\* dump --set of an HVAC-dependent property was refused while the power was off
C26_Witness ==
    /\ lastDump.valid
    /\ lastDump.op = "set"
    /\ lastDump.value.prop = AP_POWER_STATE_REPORT
    /\ lastDump.msg = "Set property"
    /\ Len(lastDump.notified) = 2
    /\ lastDump.changed = {<<AP_POWER_STATE_REPORT, 0>>, <<AP_POWER_STATE_REQ, 0>>}
    /\ HvacPowerOff(store)
    /\ <<HVAC_TEMPERATURE_SET, HVAC_ALL>> \notin DOMAIN store

(***************************************************************************)
(* Order of the results within a batch.                                    *)
(***************************************************************************)
\* The rank of an accepted request in the order in which mRequests accepted them
EnqueuePosition(rid) == CHOOSE n \in 1..Len(enqueued) : enqueued[n] = rid

\* C27: in every invocation of a callback, which carries the results of one
\* drained batch, the results are in the order in which their requests were
\* enqueued, also when the requests come from the calls of different threads.
C27_BatchOrderPreserved ==
    \A i \in 1..Len(invocations) :
        \A j, k \in 1..Len(invocations[i].results) :
            j < k => EnqueuePosition(invocations[i].results[j].requestId)
                        < EnqueuePosition(invocations[i].results[k].requestId)

\* C27 witness: the requests of two calls, of different threads with the same
\* callback, were enqueued interleaved and drained as one batch of three
C27_Witness ==
    \E i \in 1..Len(invocations) :
        /\ Len(invocations[i].results) >= 3
        /\ invocations[i].results[1].requestId[1]
                # invocations[i].results[2].requestId[1]
        /\ invocations[i].results[3].requestId[1]
                = invocations[i].results[1].requestId[1]

(***************************************************************************)
(* Periodic refresh, firing by firing.                                     *)
(***************************************************************************)
\* C28 as stated: every invocation of a refresh action whose getValue succeeded
\* removes the value once, writes it once to the store and makes the store send
\* exactly one change notification, although the payload is the one read.
C28_FiringWritesAndNotifies ==
    (lastFiring.valid /\ lastFiring.done /\ lastFiring.read = "ok") =>
        /\ lastFiring.removals = 1
        /\ lastFiring.writes = 1
        /\ lastFiring.notifications = 1

\* What does hold (C28), under SpecTimer: while no other thread writes to the
\* store, every firing whose read succeeded writes once and notifies once.
C28_FiringNotifiesWhenAlone == C28_FiringWritesAndNotifies

\* The key whose sampling meets calls of setValue, and the values set
RefreshKeys == {<<PERF_VEHICLE_SPEED, 0>>}
RefreshSetValues ==
    {v \in SetValues({PERF_VEHICLE_SPEED}, {<<1>>, <<2>>}) : KeyOf(v) \in RefreshKeys}

NextRefresh ==
    \/ UsrCall("u1", RefreshKeys, {1})
    \/ UsrLock("u1") \/ UsrUnregister("u1") \/ UsrRegister("u1") \/ UsrAssign("u1")
    \/ TimerThread
    \/ SetValueCall(RefreshSetValues)

\* A thread calling updateSampleRate with a non-zero rate, the timer thread, and a
\* thread calling setValue on the sampled key
SpecRefresh == InitSet /\ [][NextRefresh]_vars

\* C29: a firing whose read of the current value fails ends there: it removes
\* nothing, writes nothing and notifies nothing, and the step that meets the
\* failure leaves the store, the delivered notifications and the actions
\* registered with the timer as they were, so that the action fires again.
C29_FailedReadSkipsCycle ==
    /\ []((lastFiring.valid /\ lastFiring.read = "failed") =>
            /\ lastFiring.done
            /\ lastFiring.removals = 0
            /\ lastFiring.writes = 0
            /\ lastFiring.notifications = 0)
    /\ [][(timerPc = "get" /\ lastFiring.read = "pending"
             /\ lastFiring'.read = "failed") =>
            /\ timerPc' = "wait"
            /\ store' = store
            /\ written' = written
            /\ delivered' = delivered
            /\ timerCallbacks' = timerCallbacks
            /\ mRecurrentActions' = mRecurrentActions]_vars

\* A firing for a key without a value has failed and ended, its action is still
\* registered with the timer, and the timer can fire it again
C29_Witness ==
    /\ lastFiring.valid
    /\ lastFiring.read = "failed"
    /\ lastFiring.done
    /\ CallbacksFor(lastFiring.key) # {}
    /\ lastFiring.key \notin DOMAIN store
    /\ ENABLED TimerFire

(***************************************************************************)
(* The echo property.                                                      *)
(***************************************************************************)
\* Byte payloads written to ECHO_REVERSE_BYTES
EchoPayloads == {<<1, 2>>, <<3, 1, 2>>}

NextEcho ==
    \/ SetValueCall(SetValues({ECHO_REVERSE_BYTES}, EchoPayloads))
    \/ GetValueCall(GetValues({ECHO_REVERSE_BYTES}))
    \/ Tick

\* One thread calling setValue and getValue on ECHO_REVERSE_BYTES
SpecEcho == InitSet /\ [][NextEcho]_vars

\* C30: a successful getValue on ECHO_REVERSE_BYTES returns the stored bytes in
\* reversed order, so that reversing what it returned gives the stored bytes; it
\* leaves the store as it was, and a second read with no write in between returns
\* the same bytes.
C30_EchoReadReverses ==
    /\ []((lastGet.valid /\ lastGet.value.prop = ECHO_REVERSE_BYTES
             /\ lastGet.code = StatusOK) =>
            LET key == KeyOf(lastGet.value)
                returned == lastGet.result[1].value
            IN  /\ key \in DOMAIN store
                /\ returned = ReverseBytes(store[key].value)
                /\ ReverseBytes(returned) = store[key].value
                /\ \A hal \in HalOutcomes(lastGet.value) :
                    LET again == getValue(store, lastGet.value, now, hal)
                    IN  /\ again.code = StatusOK
                        /\ again.value[1].value = returned)
    /\ [][(lastGet' # lastGet /\ lastGet'.valid) =>
            (store' = store /\ written' = written /\ delivered' = delivered)]_vars

\* A read of ECHO_REVERSE_BYTES returned bytes in another order than the stored one
C30_Witness ==
    /\ lastGet.valid
    /\ lastGet.value.prop = ECHO_REVERSE_BYTES
    /\ lastGet.code = StatusOK
    /\ lastGet.result[1].value = <<2, 1, 3>>
    /\ store[KeyOf(lastGet.value)].value = <<3, 1, 2>>

(***************************************************************************)
(* Properties delegated to the user HAL.                                   *)
(***************************************************************************)
\* Values set on the delegated property; the payload is not the one the HAL returns
UserHalSetValues == {v \in SetValues({USER_HAL_PROP}, {<<2>>}) : v.areaId = 0}

NextUserHal ==
    \/ SetValueCall(UserHalSetValues)
    \/ GetValueCall({v \in GetValues({USER_HAL_PROP}) : v.areaId = 0})
    \/ Tick

\* One thread calling setValue and getValue on a property of the user HAL
SpecUserHal == InitSet /\ [][NextUserHal]_vars

\* C31: on a property delegated to the user HAL, getValue returns the error code
\* of a failing delegate, fails with INTERNAL_ERROR when the delegate succeeds
\* without a value, and otherwise returns the delegate's value, whatever the store
\* holds; setValue returns the error code of a failing delegate, and changes the
\* store only when the delegate returns a value, which is the value written.
C31_UserHalDelegation ==
    /\ (lastGet.valid /\ UserHalSupported(lastGet.value.prop)) =>
          /\ ~lastGet.hal.ok => (lastGet.code = lastGet.hal.code /\ lastGet.result = <<>>)
          /\ (lastGet.hal.ok /\ lastGet.hal.value = <<>>) =>
                (lastGet.code = INTERNAL_ERROR /\ lastGet.result = <<>>)
          /\ (lastGet.hal.ok /\ lastGet.hal.value # <<>>) =>
                /\ lastGet.code = StatusOK
                /\ Len(lastGet.result) = 1
                /\ lastGet.result[1].timestamp <= now
                /\ [lastGet.result[1] EXCEPT !.timestamp = 0] =
                        [lastGet.hal.value[1] EXCEPT !.timestamp = 0]
    /\ (lastSet.valid /\ UserHalSupported(lastSet.value.prop)) =>
          /\ ~lastSet.hal.ok => (lastSet.code = lastSet.hal.code /\ lastSet.changed = {})
          /\ (lastSet.hal.ok /\ lastSet.hal.value = <<>>) =>
                (lastSet.code = StatusOK /\ lastSet.changed = {})
          /\ lastSet.changed # {} =>
                /\ lastSet.hal.ok
                /\ lastSet.hal.value # <<>>
                /\ lastSet.changed = {KeyOf(lastSet.hal.value[1])}
                /\ store[KeyOf(lastSet.hal.value[1])] = lastSet.hal.value[1]

\* The store holds a value the delegate returned to a setValue, and a getValue on
\* the same key, whose delegate returned no value, failed with INTERNAL_ERROR
C31_Witness ==
    /\ lastGet.valid
    /\ UserHalSupported(lastGet.value.prop)
    /\ lastGet.hal.ok
    /\ lastGet.hal.value = <<>>
    /\ lastGet.code = INTERNAL_ERROR
    /\ KeyOf(lastGet.value) \in DOMAIN store
    /\ store[KeyOf(lastGet.value)].value = <<1>>

(***************************************************************************)
(* Periodic refresh against concurrent calls of setValue and getValue.     *)
(***************************************************************************)
\* C32 as stated: with sampling active on a key, the value of a successful
\* setValue on the key is not overwritten by a refresh that carries the payload
\* stored before: when no firing is in flight, the stored payload is the one set.
C32_SetNotOverwrittenByRefresh ==
    (/\ lastSet.valid
     /\ lastSet.code = StatusOK
     /\ KeyOf(lastSet.value) \in RefreshKeys
     /\ timerPc = "wait") =>
        /\ KeyOf(lastSet.value) \in DOMAIN store
        /\ store[KeyOf(lastSet.value)].value = lastSet.value.value

NextRefreshRead ==
    \/ UsrCall("u1", RefreshKeys, {1})
    \/ UsrLock("u1") \/ UsrUnregister("u1") \/ UsrRegister("u1") \/ UsrAssign("u1")
    \/ TimerThread
    \/ GetValueCall({v \in GetValues({PERF_VEHICLE_SPEED}) : KeyOf(v) \in RefreshKeys})
    \/ Tick

\* A thread calling updateSampleRate with a non-zero rate, the timer thread, and a
\* thread calling getValue on the sampled key
SpecRefreshRead == InitSet /\ [][NextRefreshRead]_vars

\* C33 as stated: once a value has been written for a key, a getValue on the key
\* that runs while the key is refreshed does not fail with NOT_AVAILABLE.
C33_ReadSeesValueDuringRefresh ==
    (/\ lastGet.valid
     /\ KeyOf(lastGet.value) \in RefreshKeys
     /\ lastGet.everWritten) =>
        lastGet.code # NOT_AVAILABLE

(***************************************************************************)
(* Periodic refresh of a property read through a special handler.          *)
(***************************************************************************)
EchoKeys == {<<ECHO_REVERSE_BYTES, 0>>}

NextEchoRefresh ==
    \/ SetValueCall({v \in SetValues({ECHO_REVERSE_BYTES}, {<<1, 2>>}) :
                        KeyOf(v) \in EchoKeys})
    \/ UsrCall("u1", EchoKeys, {1})
    \/ UsrLock("u1") \/ UsrUnregister("u1") \/ UsrRegister("u1") \/ UsrAssign("u1")
    \/ TimerThread

\* A thread that sets ECHO_REVERSE_BYTES, a thread that asks for its sampling, and
\* the timer thread
SpecEchoRefresh == InitSet /\ [][NextEchoRefresh]_vars

\* C34 as stated: the write of a refresh firing leaves in the store, for its key,
\* the payload that was stored when the firing read the value, also for a
\* property whose read goes through a special get handler.
C34_RefreshKeepsPayload ==
    [][(timerPc = "write" /\ timerPc' # "write") =>
            PayloadAt(store', lastFiring.key) = lastFiring.before]_vars

\* What does hold (C34), under SpecTimer: for a property read from the store, with
\* no other writer, the payload after the write is the payload read.
C34_RefreshKeepsPlainPayload == C34_RefreshKeepsPayload

(***************************************************************************)
(* The saved-property map across a restore.                                *)
(***************************************************************************)
\* C35: a restore of a key that has a snapshot removes that snapshot, whether it
\* reports the value as restored or the write as failed, and leaves the snapshot
\* of every other key as it was.
C35_RestoreRemovesOnlyItsSnapshot ==
    (/\ lastDump.valid
     /\ lastDump.op = "restore"
     /\ lastDump.original # <<>>) =>
        /\ lastDump.msg \in {"restored", "Failed to restore property value"}
        /\ lastDump.savedChanged = {lastDump.key}
        /\ lastDump.key \notin DOMAIN mSavedProps
        /\ DOMAIN mSavedProps = DOMAIN lastDump.taken
        /\ \A k \in DOMAIN mSavedProps : mSavedProps[k] = lastDump.taken[k]

\* A key has been restored while the snapshot of another key, taken earlier, is
\* still held with the value saved
C35_Witness ==
    /\ lastDump.valid
    /\ lastDump.op = "restore"
    /\ lastDump.key = <<PERF_VEHICLE_SPEED, 0>>
    /\ lastDump.original # <<>>
    /\ lastDump.msg = "restored"
    /\ DOMAIN mSavedProps = {<<HVAC_POWER_ON, HVAC_ALL>>}
    /\ mSavedProps[<<HVAC_POWER_ON, HVAC_ALL>>].value = <<1>>

(***************************************************************************)
(* dump --genfakedata --keypress.                                          *)
(***************************************************************************)
HW_KEY_INPUT == "HW_KEY_INPUT"
ACTION_DOWN == 0
ACTION_UP == 1

\* FakeVehicleHardware::createHwInputKeyProp at time t
createHwInputKeyProp(action, keyCode, targetDisplay, t) ==
    PropValue(HW_KEY_INPUT, 0, t, "AVAILABLE", <<action, keyCode, targetDisplay>>)

\* Key codes and displays given on the command line
KeyCodes == {1, 2}
Displays == {0, 1}

\* genFakeDataCommand, --keypress with parsed arguments: the first call of
\* onValueChangeCallback, which holds mLock for its duration.  keyPress.listener is
\* the listener registered when the command makes this call.
KeyPressDown ==
    /\ keyPress.pc = "idle"
    /\ mLock = "none"
    /\ \E keyCode \in KeyCodes, display \in Displays :
        /\ keyPress' = [pc |-> "down", valid |-> FALSE, keyCode |-> keyCode,
                        display |-> display,
                        listener |-> mOnPropertyChangeCallback]
        /\ delivered' = onValueChangeCallback(mOnPropertyChangeCallback,
                            createHwInputKeyProp(ACTION_DOWN, keyCode, display, now))
    /\ UNCHANGED <<mSavedProps, lastDump, dtorVars, registrations, enqueued,
                   lastFiring, storeVars, kind, mQueue, mIsActive, workerVars,
                   prodVars, accepted, rejected, stopVars, callerVars,
                   mOnPropertyChangeCallback, rateVars, timerVars>>

\* Mutant of KeyPressUp: the second event is ACTION_DOWN again
KeyPressUpSendsDown ==
    /\ keyPress.pc = "down"
    /\ mLock = "none"
    /\ keyPress' = [keyPress EXCEPT !.pc = "idle", !.valid = TRUE]
    /\ delivered' = delivered \o
            onValueChangeCallback(mOnPropertyChangeCallback,
                createHwInputKeyProp(ACTION_DOWN, keyPress.keyCode, keyPress.display,
                                     now))
    /\ UNCHANGED <<mSavedProps, lastDump, dtorVars, registrations, enqueued,
                   lastFiring, storeVars, kind, mQueue, mIsActive, workerVars,
                   prodVars, accepted, rejected, stopVars, callerVars,
                   mOnPropertyChangeCallback, rateVars, timerVars>>

\* genFakeDataCommand, --keypress: the second call of onValueChangeCallback
KeyPressUp ==
    /\ keyPress.pc = "down"
    /\ mLock = "none"
    /\ keyPress' = [keyPress EXCEPT !.pc = "idle", !.valid = TRUE]
    /\ delivered' = delivered \o
            onValueChangeCallback(mOnPropertyChangeCallback,
                createHwInputKeyProp(ACTION_UP, keyPress.keyCode, keyPress.display,
                                     now))
    /\ UNCHANGED <<mSavedProps, lastDump, dtorVars, registrations, enqueued,
                   lastFiring, storeVars, kind, mQueue, mIsActive, workerVars,
                   prodVars, accepted, rejected, stopVars, callerVars,
                   mOnPropertyChangeCallback, rateVars, timerVars>>

NextKeyPress ==
    \/ KeyPressDown
    \/ KeyPressUp
    \/ RegisterListener(ListenerHandles)
    \/ Tick

\* A thread running the key-press command, a thread registering listeners, and
\* the clock
SpecKeyPress == InitSet /\ [][NextKeyPress]_vars

SpecialSetValues ==
    SetValues({VEHICLE_MAP_SERVICE}, {<<1>>})
        \cup {v \in SetValues({USER_HAL_PROP}, {<<2>>}) : v.areaId = 0}
        \cup {v \in SetValues({HVAC_POWER_ON}, {<<0>>, <<1>>}) : v.areaId = HVAC_ALL}
        \cup {v \in SetValues({HVAC_TEMPERATURE_SET}, {<<2>>}) : v.areaId = HVAC_ALL}
        \cup {v \in SetValues({AP_POWER_STATE_REPORT}, {<<WAIT_FOR_VHAL, 0>>}) :
                    v.areaId = 0}

NextSpecial ==
    \/ SetValueCall(SpecialSetValues)
    \/ RegisterOnPropertyChangeEvent

\* A thread calling setValue on properties with special handlers, with a listener
\* that may be registered
SpecSpecial == InitSet /\ [][NextSpecial]_vars

\* C37: setValue of VEHICLE_MAP_SERVICE returns success, changes no stored value
\* and notifies nothing; a setValue answered by the user HAL handler or by the HVAC
\* power gate stores the request value nowhere, and one answered by the power
\* report handler writes the request value once, not a second time.
C37_SpecialSetSkipsGenericWrite ==
    lastSet.valid =>
        /\ lastSet.value.prop = VEHICLE_MAP_SERVICE =>
                /\ lastSet.code = StatusOK
                /\ lastSet.changed = {}
                /\ lastSet.notified = <<>>
                /\ delivered = <<>>
        /\ (\/ UserHalSupported(lastSet.value.prop)
            \/ /\ lastSet.value.prop \in HVAC_POWER_PROPERTIES
               /\ lastSet.code = NOT_AVAILABLE) =>
                \A k \in lastSet.changed :
                    ~SameIgnoringTimestamp(store[k], lastSet.value)
        /\ (lastSet.value.prop \in HVAC_POWER_PROPERTIES
                /\ lastSet.code = NOT_AVAILABLE) => lastSet.changed = {}
        /\ lastSet.value.prop = AP_POWER_STATE_REPORT =>
                Cardinality(NotifiedFor(KeyOf(lastSet.value))) <= 1

\* A setValue of VEHICLE_MAP_SERVICE on its permitted area returned success with a
\* listener registered, and the store has no value of the property
C37_Witness ==
    /\ lastSet.valid
    /\ lastSet.value.prop = VEHICLE_MAP_SERVICE
    /\ lastSet.value.areaId = 0
    /\ lastSet.code = StatusOK
    /\ lastSet.listener # "null"
    /\ <<VEHICLE_MAP_SERVICE, 0>> \notin DOMAIN store

(***************************************************************************)
(* dump --inject-event.                                                    *)
(***************************************************************************)
\* FakeVehicleHardware::dumpInjectEvent on parsed options: [msg, store, notified];
\* the result of the write is not looked at
dumpInjectEvent(st, prop) ==
    LET r == eventFromVehicleBus(st, prop)
    IN  [msg |-> "Event injected", store |-> r.store, notified |-> r.notified]

\* dump --inject-event called by the caller thread.  lastDump keeps what the store
\* held before the event: whether HVAC power was off, and whether the key had the
\* same value.
DumpInjectEvent(Values) ==
    /\ \E prop \in Values :
        LET r == dumpInjectEvent(store, prop)
        IN  /\ store' = r.store
            /\ written' = written \cup DOMAIN r.store
            /\ delivered' = onValueChanges(mOnPropertyChangeCallback, r.notified)
            /\ lastDump' = [valid |-> TRUE, op |-> "inject", key |-> KeyOf(prop),
                            msg |-> r.msg, taken |-> lastDump.taken,
                            value |-> prop,
                            changed |-> ChangedKeys(store, r.store),
                            notified |-> r.notified,
                            hvacOff |-> HvacPowerOff(store),
                            same |-> /\ KeyOf(prop) \in DOMAIN store
                                     /\ SameIgnoringTimestamp(store[KeyOf(prop)], prop),
                            listener |-> mOnPropertyChangeCallback]
    /\ lastSet' = NoSet
    /\ lastGet' = NoGet
    /\ UNCHANGED <<mSavedProps, keyPress, dtorVars, registrations, enqueued,
                   lastFiring, now, kind, mQueue, mIsActive, workerVars, prodVars,
                   accepted, rejected, stopVars, mOnPropertyChangeCallback,
                   rateVars, timerVars>>

\* Timestamps given with -t: before and after the clock's values
InjectTimes == {0, MaxTime + 1}

\* Events injected: HVAC power off and on, an HVAC-dependent property on its
\* permitted area and on another, the map service, and an unregistered property
InjectValues ==
    {PropValue(HVAC_POWER_ON, HVAC_ALL, t, "AVAILABLE", pl) :
        t \in InjectTimes, pl \in {<<0>>, <<1>>}}
    \cup {PropValue(HVAC_TEMPERATURE_SET, a, t, "AVAILABLE", pl) :
            a \in {0, HVAC_ALL}, t \in InjectTimes, pl \in {<<1>>, <<2>>}}
    \cup {PropValue(p, 0, MaxTime + 1, "AVAILABLE", <<1>>) :
            p \in {VEHICLE_MAP_SERVICE, UNREGISTERED_PROP}}

NextInject ==
    \/ DumpInjectEvent(InjectValues)
    \/ RegisterOnPropertyChangeEvent

\* A thread injecting events, with a listener that may be registered
SpecInject == InitSet /\ [][NextInject]_vars

C38_WitnessFailedWrite ==
    /\ lastDump.valid
    /\ lastDump.op = "inject"
    /\ lastDump.value.prop = UNREGISTERED_PROP
    /\ lastDump.changed = {}

(***************************************************************************)
(* Handling before delivery within a drain cycle.                          *)
(***************************************************************************)
\* C39: when a callback has been invoked in a drain cycle, every request of the
\* batch drained in that cycle has been handled: within a cycle all the calls of
\* the request handler precede all the invocations of callbacks.
C39_HandledBeforeAnyCallback ==
    \A i \in 1..Len(invocations) :
        \A d \in drained :
            d[2] = invocations[i].cycle => d \in handled

\* One cycle drained three requests or more of two callbacks, and the first of
\* its callbacks has been invoked while the other still waits for its invocation
C39_Witness ==
    /\ workerPc = "deliver"
    /\ Cardinality({d \in drained : d[2] = cycle}) >= 3
    /\ \E i \in 1..Len(invocations) : invocations[i].cycle = cycle
    /\ callbackToResults # <<>>

====
